---- MODULE Spec2Model ----
(***************************************************************************)
(* Model of uni-schedule-core: the interval index (lapper.rs) and the      *)
(* schedule manager (manager.rs).                                          *)
(*                                                                         *)
(* Times are small naturals standing for DateTime<Utc> instants, ids are   *)
(* small positive naturals standing for Uuid values (ordered as Uuid's     *)
(* Ord), levels are naturals (u32).  Option<Box<Node>> is a sequence of    *)
(* length 0 (None) or 1 (Some).                                            *)
(***************************************************************************)
EXTENDS Naturals, Integers, Sequences, FiniteSets, TLC

\* ------------------------------------------------------------------ bounds
MaxId == 2
MaxTime == 2
MaxLevel == 1
MaxCascadeLevel == 2

MAX_ID_ATTEMPTS == 16

\* bounds of the interval index taken alone
MaxLapperTime == 3
MaxNodes == 4

Ids == 1..MaxId
Times == 0..MaxTime
Levels == 0..MaxLevel
\* String values, as sequences of characters
Names == {<< "a", "b" >>}

\* the intervals given to a Lapper taken alone: start < stop as Interval::new
\* requires, val any id
MaxBatch == 2
\* longest vector given to from_vec
MaxVec == 5
\* bounds of the deeper trees: the starts of their intervals, their nodes
MaxTreeKey == 6
MaxTreeNodes == 7
MaxThreads == 2
LapperTimes == 0..MaxLapperTime
Intervals ==
  {iv \in [start : LapperTimes, stop : LapperTimes, val : Ids] : iv.start < iv.stop}

\* the vectors given to insert_batch: at most MaxBatch intervals of one val,
\* in any order, repeats included
BatchIntervals == {iv \in Intervals : iv.val = 1}
Batches == UNION {[1..n -> BatchIntervals] : n \in 0..MaxBatch}

\* the intervals given to the deeper trees: one per start, of length 1
TreeIntervals == {[start |-> k, stop |-> k + 1, val |-> 1] : k \in 0..MaxTreeKey}

\* the intervals given to from_vec: those of val 1 and one of val 2 that
\* shares its start and stop with one of them
VecIntervals == BatchIntervals \cup {[start |-> 0, stop |-> 1, val |-> 2]}
\* the vectors of distinct intervals, in every order
Vecs ==
  {v \in UNION {[1..n -> VecIntervals] : n \in 0..MaxVec} :
     \A i, j \in 1..Len(v) : i /= j => v[i] /= v[j]}

\* ----------------------------------------------------------- lapper.rs
\* derive(Ord) on Interval: lexicographic on (start, stop, val)
IvLess(a, b) ==
  \/ a.start < b.start
  \/ a.start = b.start /\ a.stop < b.stop
  \/ a.start = b.start /\ a.stop = b.stop /\ a.val < b.val

MkInterval(start, stop, val) == [start |-> start, stop |-> stop, val |-> val]

\* mutant of Overlap: touching endpoints count as overlap
OverlapClosed(iv, start, stop) == iv.start <= stop /\ iv.stop >= start

\* Interval::overlap
Overlap(iv, start, stop) == iv.start < stop /\ iv.stop > start

None == << >>
Some(n) == << n >>
IsSome(o) == o /= << >>
Unwrap(o) == o[1]

\* Node::new
NewNode(iv) ==
  [iv |-> iv, max |-> iv.stop, height |-> 1, left |-> None, right |-> None]

MaxOf(a, b) == IF a > b THEN a ELSE b

\* mutant of UpdateMax: the left child is not looked at
UpdateMaxRightOnly(n) ==
  LET m0 == n.iv.stop
      m2 == IF IsSome(n.right) /\ Unwrap(n.right).max > m0
            THEN Unwrap(n.right).max ELSE m0
  IN [n EXCEPT !.max = m2]

\* Node::update_max
UpdateMax(n) ==
  LET m0 == n.iv.stop
      m1 == IF IsSome(n.left) /\ Unwrap(n.left).max > m0
            THEN Unwrap(n.left).max ELSE m0
      m2 == IF IsSome(n.right) /\ Unwrap(n.right).max > m1
            THEN Unwrap(n.right).max ELSE m1
  IN [n EXCEPT !.max = m2]

\* Node::height
Height(o) == IF IsSome(o) THEN Unwrap(o).height ELSE 0

\* Node::update_height
UpdateHeight(n) == [n EXCEPT !.height = 1 + MaxOf(Height(n.left), Height(n.right))]

\* Node::balance_factor
BalanceFactor(n) == Height(n.left) - Height(n.right)

\* Node::rotate_right (requires a left child)
RotateRight(n) ==
  LET l == Unwrap(n.left)
      self1 == UpdateMax(UpdateHeight([n EXCEPT !.left = l.right]))
  IN UpdateMax(UpdateHeight([l EXCEPT !.right = Some(self1)]))

\* Node::rotate_left (requires a right child)
RotateLeft(n) ==
  LET r == Unwrap(n.right)
      self1 == UpdateMax(UpdateHeight([n EXCEPT !.right = r.left]))
  IN UpdateMax(UpdateHeight([r EXCEPT !.left = Some(self1)]))

\* Node::rebalance
Rebalance(n0) ==
  LET n == UpdateMax(UpdateHeight(n0))
      bf == BalanceFactor(n)
  IN IF bf > 1 THEN
       LET l == Unwrap(n.left)
           n1 == IF Height(l.right) > Height(l.left)
                 THEN [n EXCEPT !.left = Some(RotateLeft(l))]
                 ELSE n
       IN RotateRight(n1)
     ELSE IF bf < -1 THEN
       LET r == Unwrap(n.right)
           n1 == IF Height(r.left) > Height(r.right)
                 THEN [n EXCEPT !.right = Some(RotateRight(r))]
                 ELSE n
       IN RotateLeft(n1)
     ELSE n

\* Node::insert: an element that is not smaller than the node goes right
RECURSIVE NodeInsert(_, _)
NodeInsert(n, elem) ==
  IF IvLess(elem, n.iv) THEN
    IF IsSome(n.left)
    THEN Rebalance([n EXCEPT !.left = Some(NodeInsert(Unwrap(n.left), elem))])
    ELSE Rebalance([n EXCEPT !.left = Some(NewNode(elem))])
  ELSE IF IsSome(n.right)
    THEN Rebalance([n EXCEPT !.right = Some(NodeInsert(Unwrap(n.right), elem))])
    ELSE Rebalance([n EXCEPT !.right = Some(NewNode(elem))])

\* Node::take_min: (minimum interval, subtree without it)
RECURSIVE TakeMin(_)
TakeMin(n) ==
  IF ~IsSome(n.left) THEN [iv |-> n.iv, rest |-> n.right]
  ELSE LET r == TakeMin(Unwrap(n.left))
       IN [iv |-> r.iv,
           rest |-> Some(UpdateMax(UpdateHeight([n EXCEPT !.left = r.rest])))]

\* Node::remove: (new subtree, removed flag)
RECURSIVE NodeRemove(_, _)
NodeRemove(n, elem) ==
  IF IvLess(elem, n.iv) THEN
    IF IsSome(n.left) THEN
      LET r == NodeRemove(Unwrap(n.left), elem)
          node == [n EXCEPT !.left = r.tree]
      IN IF r.removed
         THEN [tree |-> Some(Rebalance(node)), removed |-> TRUE]
         ELSE [tree |-> Some(node), removed |-> FALSE]
    ELSE [tree |-> Some(n), removed |-> FALSE]
  ELSE IF IvLess(n.iv, elem) THEN
    IF IsSome(n.right) THEN
      LET r == NodeRemove(Unwrap(n.right), elem)
          node == [n EXCEPT !.right = r.tree]
      IN IF r.removed
         THEN [tree |-> Some(Rebalance(node)), removed |-> TRUE]
         ELSE [tree |-> Some(node), removed |-> FALSE]
    ELSE [tree |-> Some(n), removed |-> FALSE]
  ELSE
    IF ~IsSome(n.left) /\ ~IsSome(n.right) THEN [tree |-> None, removed |-> TRUE]
    ELSE IF ~IsSome(n.right) THEN [tree |-> n.left, removed |-> TRUE]
    ELSE IF ~IsSome(n.left) THEN [tree |-> n.right, removed |-> TRUE]
    ELSE LET tm == TakeMin(Unwrap(n.right))
             node == [n EXCEPT !.iv = tm.iv, !.right = tm.rest]
         IN [tree |-> Some(Rebalance(node)), removed |-> TRUE]

\* OverlapIter::push_left_chain: the top of the stack is its last element
RECURSIVE PushLeftChain(_, _)
PushLeftChain(stack, n) ==
  IF IsSome(n.left)
  THEN PushLeftChain(Append(stack, n), Unwrap(n.left))
  ELSE Append(stack, n)

\* OverlapIter::new
OverlapIterNew(root) ==
  IF IsSome(root) THEN PushLeftChain(<< >>, Unwrap(root)) ELSE << >>

\* OverlapIter::next, run to exhaustion: the sequence of yielded intervals
RECURSIVE OverlapIterCollect(_, _, _, _)
OverlapIterCollect(stack, start, stop, acc) ==
  IF stack = << >> THEN acc
  ELSE
    LET node == stack[Len(stack)]
        popped == SubSeq(stack, 1, Len(stack) - 1)
        st1 == IF IsSome(node.right)
               THEN PushLeftChain(popped, Unwrap(node.right))
               ELSE popped
    IN IF node.max < start THEN OverlapIterCollect(st1, start, stop, acc)
       ELSE IF node.iv.start >= stop THEN OverlapIterCollect(st1, start, stop, acc)
       ELSE IF Overlap(node.iv, start, stop)
         THEN OverlapIterCollect(st1, start, stop, Append(acc, node.iv))
         ELSE OverlapIterCollect(st1, start, stop, acc)

\* Lapper::new on the empty set (the only use in the manager)
EmptyLapper == [intervals |-> {}, root |-> None]

\* Lapper::insert
LapperInsert(lp, elem) ==
  [intervals |-> lp.intervals \cup {elem},
   root |-> IF IsSome(lp.root)
            THEN Some(NodeInsert(Unwrap(lp.root), elem))
            ELSE Some(NewNode(elem))]

\* Lapper::remove: (lapper after the call, returned flag)
LapperRemove(lp, elem) ==
  IF IsSome(lp.root) THEN
    LET r == NodeRemove(Unwrap(lp.root), elem)
    IN [lapper |-> [intervals |-> IF r.removed THEN lp.intervals \ {elem}
                                  ELSE lp.intervals,
                    root |-> r.tree],
        removed |-> r.removed]
  ELSE [lapper |-> lp, removed |-> FALSE]

\* number of nodes of a tree
RECURSIVE NodeCount(_)
NodeCount(o) ==
  IF ~IsSome(o) THEN 0
  ELSE 1 + NodeCount(Unwrap(o).left) + NodeCount(Unwrap(o).right)

\* Lapper::find, collected
Find(lp, start, stop) ==
  OverlapIterCollect(OverlapIterNew(lp.root), start, stop, << >>)

\* Lapper::has_overlap
HasOverlap(lp, start, stop) ==
  IF start >= stop THEN FALSE ELSE Len(Find(lp, start, stop)) > 0

\* BTreeSet iteration: the elements in ascending order
RECURSIVE SortedVec(_)
SortedVec(S) ==
  IF S = {} THEN << >>
  ELSE LET m == CHOOSE x \in S : \A y \in S \ {x} : IvLess(x, y)
       IN << m >> \o SortedVec(S \ {m})

\* mutant of BuildFromSlice: the first element is taken as the root
RECURSIVE BuildFromSliceFirst(_)
BuildFromSliceFirst(slice) ==
  IF Len(slice) = 0 THEN None
  ELSE LET node == [iv |-> slice[1],
                    max |-> slice[1].stop,
                    height |-> 1,
                    left |-> None,
                    right |-> BuildFromSliceFirst(SubSeq(slice, 2, Len(slice)))]
       IN Some(UpdateMax(UpdateHeight(node)))

\* build_from_slice: the middle element (index len / 2, counted from 0) is the
\* root, the halves are built the same way, then height and max are recomputed
RECURSIVE BuildFromSlice(_)
BuildFromSlice(slice) ==
  IF Len(slice) = 0 THEN None
  ELSE LET mid == Len(slice) \div 2
           node == [iv |-> slice[mid + 1],
                    max |-> slice[mid + 1].stop,
                    height |-> 1,
                    left |-> BuildFromSlice(SubSeq(slice, 1, mid)),
                    right |-> BuildFromSlice(SubSeq(slice, mid + 2, Len(slice)))]
       IN Some(UpdateMax(UpdateHeight(node)))

\* Lapper::build_balanced
BuildBalanced(intervals) ==
  IF intervals = {} THEN None ELSE BuildFromSlice(SortedVec(intervals))

\* Vec<Interval> collected into a BTreeSet
CollectSet(vec) == {vec[i] : i \in 1..Len(vec)}

\* Lapper::new
LapperNew(intervals) ==
  IF Cardinality(intervals) <= 1
  THEN [intervals |-> intervals,
        root |-> IF intervals = {} THEN None
                 ELSE Some(NewNode(SortedVec(intervals)[1]))]
  ELSE [intervals |-> intervals, root |-> BuildBalanced(intervals)]

\* Lapper::from_vec
FromVec(vec) ==
  LET interval_set == CollectSet(vec)
  IN IF Cardinality(interval_set) <= 1
     THEN [intervals |-> interval_set,
           root |-> IF interval_set = {} THEN None
                    ELSE Some(NewNode(SortedVec(interval_set)[1]))]
     ELSE [intervals |-> interval_set, root |-> BuildBalanced(interval_set)]

\* mutant of InsertBatch: the new intervals are inserted into the tree one by
\* one, the tree is not rebuilt
RECURSIVE InsertBatchOneByOne(_, _)
InsertBatchOneByOne(lp, new_intervals) ==
  IF Len(new_intervals) = 0 THEN lp
  ELSE InsertBatchOneByOne(LapperInsert(lp, Head(new_intervals)), Tail(new_intervals))

\* Lapper::insert_batch
InsertBatch(lp, new_intervals) ==
  IF Len(new_intervals) = 0 THEN lp
  ELSE LET all == lp.intervals \cup CollectSet(new_intervals)
       IN [intervals |-> all, root |-> BuildBalanced(all)]

\* Serialize for Lapper: a struct with the one field `intervals`, the set
\* written as the sequence of its elements in ascending order
LapperSerialize(lp) == [intervals |-> SortedVec(lp.intervals)]

\* Deserialize for Lapper: the sequence is collected into a set and the tree
\* is rebuilt from the set
LapperDeserialize(helper) ==
  LET interval_set == CollectSet(helper.intervals)
  IN [intervals |-> interval_set, root |-> BuildBalanced(interval_set)]

\* ----------------------------------------------------------- manager.rs
\* HashMap / BTreeMap as functions with a finite domain
MapPut(f, k, v) == [x \in (DOMAIN f) \cup {k} |-> IF x = k THEN v ELSE f[x]]
MapDel(f, k) == [x \in (DOMAIN f) \ {k} |-> f[x]]
EmptyMap == [x \in {} |-> {}]

\* struct Schedule
Schedules == [start : Times, end : Times, level : Levels,
              exclusive : BOOLEAN, name : Names]

\* Result<_, ScheduleError>: tag is "Ok" or the error variant
Ok(id) == [tag |-> "Ok", id |-> id, removed |-> {}]
OkRemoved(ids) == [tag |-> "Ok", id |-> 0, removed |-> ids]
Err(e) == [tag |-> e, id |-> 0, removed |-> {}]

\* ScheduleManager::new_base
NewBase ==
  [schedules |-> EmptyMap, exclusive_index |-> EmptyMap, all_index |-> EmptyMap,
   parent_relations |-> EmptyMap, child_relations |-> EmptyMap,
   level_index |-> EmptyMap]

\* every enumeration order of a HashSet
Orders(S) ==
  {o \in [1..Cardinality(S) -> S] : \A i, j \in 1..Cardinality(S) : o[i] = o[j] => i = j}

\* mutant of GenerateUniqueIdFrom: gives up one attempt early
RECURSIVE GenerateUniqueIdFromShort(_, _, _)
GenerateUniqueIdFromShort(m, cands, i) ==
  IF i >= MAX_ID_ATTEMPTS THEN Err("DuplicateId")
  ELSE IF cands[i] \notin DOMAIN m.schedules THEN Ok(cands[i])
  ELSE GenerateUniqueIdFromShort(m, cands, i + 1)

\* generate_unique_id: cands[i] is the i-th value of Uuid::now_v7()
RECURSIVE GenerateUniqueIdFrom(_, _, _)
GenerateUniqueIdFrom(m, cands, i) ==
  IF i > MAX_ID_ATTEMPTS THEN Err("DuplicateId")
  ELSE IF cands[i] \notin DOMAIN m.schedules THEN Ok(cands[i])
  ELSE GenerateUniqueIdFrom(m, cands, i + 1)

GenerateUniqueId(m, cands) == GenerateUniqueIdFrom(m, cands, 1)

\* mutant of ValidateParents: a parent of the same level is accepted
RECURSIVE ValidateParentsSameLevel(_, _, _, _)
ValidateParentsSameLevel(m, s, order, i) ==
  IF i > Len(order) THEN "Ok"
  ELSE IF order[i] \notin DOMAIN m.schedules THEN "ParentNotFound"
  ELSE LET parent == m.schedules[order[i]]
       IN IF parent.level > s.level THEN "LevelExceedsParent"
          ELSE IF parent.start > s.start \/ parent.end < s.end
            THEN "TimeRangeExceedsParent"
          ELSE ValidateParentsSameLevel(m, s, order, i + 1)

\* validate_schedule, the loop over parents in the enumeration order `order`
RECURSIVE ValidateParents(_, _, _, _)
ValidateParents(m, s, order, i) ==
  IF i > Len(order) THEN "Ok"
  ELSE IF order[i] \notin DOMAIN m.schedules THEN "ParentNotFound"
  ELSE LET parent == m.schedules[order[i]]
       IN IF parent.level >= s.level THEN "LevelExceedsParent"
          ELSE IF parent.start > s.start \/ parent.end < s.end
            THEN "TimeRangeExceedsParent"
          ELSE ValidateParents(m, s, order, i + 1)

\* mutant of FindsForeign: a supplied parent is not exempt
FindsAny(lp, s, parents) == Len(Find(lp, s.start, s.end)) > 0

\* some interval yielded by find has a val outside `parents`
FindsForeign(lp, s, parents) ==
  LET found == Find(lp, s.start, s.end)
  IN \E i \in 1..Len(found) : found[i].val \notin parents

\* mutant of InboundOverlap: the parents of the supplied parents are exempt too
InboundOverlapTransitive(m, s, parents) ==
  \E L \in DOMAIN m.exclusive_index :
    L <= s.level /\
    FindsForeign(m.exclusive_index[L], s,
                 parents \cup UNION {m.parent_relations[q] :
                                       q \in parents \cap DOMAIN m.parent_relations})

\* mutant of InboundOverlap: exclusive peers of the same level are not checked
InboundOverlapAboveOnly(m, s, parents) ==
  \E L \in DOMAIN m.exclusive_index :
    L < s.level /\ FindsForeign(m.exclusive_index[L], s, parents)

\* validate_schedule: overlap with exclusive schedules at levels <= s.level
InboundOverlap(m, s, parents) ==
  \E L \in DOMAIN m.exclusive_index :
    L <= s.level /\ FindsForeign(m.exclusive_index[L], s, parents)

\* validate_schedule: an exclusive schedule against all levels >= s.level
OutboundOverlap(m, s, parents) ==
  s.exclusive /\ \E L \in DOMAIN m.all_index :
    L >= s.level /\ FindsForeign(m.all_index[L], s, parents)

\* mutant of ValidateSchedule: the exclusivity checks run before the parent loop
ValidateScheduleOverlapFirst(m, s, order) ==
  LET parents == {order[i] : i \in 1..Len(order)}
  IN IF s.start >= s.end THEN "StartAfterEnd"
     ELSE IF InboundOverlap(m, s, parents) THEN "TimeRangeOverlaps"
     ELSE IF OutboundOverlap(m, s, parents) THEN "TimeRangeOverlaps"
     ELSE ValidateParents(m, s, order, 1)

\* validate_schedule
ValidateSchedule(m, s, order) ==
  LET parents == {order[i] : i \in 1..Len(order)}
  IN IF s.start >= s.end THEN "StartAfterEnd"
     ELSE IF ValidateParents(m, s, order, 1) /= "Ok"
       THEN ValidateParents(m, s, order, 1)
     ELSE IF InboundOverlap(m, s, parents) THEN "TimeRangeOverlaps"
     ELSE IF OutboundOverlap(m, s, parents) THEN "TimeRangeOverlaps"
     ELSE "Ok"

\* BTreeMap::entry(level).or_insert_with(empty lapper), then insert
IndexInsert(index, level, iv) ==
  MapPut(index, level,
         LapperInsert(IF level \in DOMAIN index THEN index[level] ELSE EmptyLapper, iv))

\* HashMap::entry(k).or_default().insert(v)
SetMapAdd(f, k, v) == MapPut(f, k, (IF k \in DOMAIN f THEN f[k] ELSE {}) \cup {v})

RECURSIVE AddChild(_, _, _)
AddChild(children, parents, id) ==
  IF parents = {} THEN children
  ELSE LET p == CHOOSE x \in parents : TRUE
       IN AddChild(SetMapAdd(children, p, id), parents \ {p}, id)

\* execute_create_transaction
ExecuteCreateTransaction(m, id, s, parents) ==
  LET iv == MkInterval(s.start, s.end, id)
  IN [schedules |-> MapPut(m.schedules, id, s),
      exclusive_index |-> IF s.exclusive
                          THEN IndexInsert(m.exclusive_index, s.level, iv)
                          ELSE m.exclusive_index,
      all_index |-> IndexInsert(m.all_index, s.level, iv),
      parent_relations |-> MapPut(m.parent_relations, id, parents),
      child_relations |-> AddChild(m.child_relations, parents, id),
      level_index |-> SetMapAdd(m.level_index, s.level, id)]

\* the managers execute_create_transaction passes through on its way from m
\* to `after`: with the interval in the indices and the maps as they were,
\* then with the maps written
ExecuteCreateSteps(m, after) ==
  IF after = m THEN << >>
  ELSE << [m EXCEPT !.exclusive_index = after.exclusive_index,
                    !.all_index = after.all_index],
          after >>

\* create_schedule
CreateSchedule(m, s, order, cands) ==
  LET parents == {order[i] : i \in 1..Len(order)}
      v == ValidateSchedule(m, s, order)
      g == GenerateUniqueId(m, cands)
  IN IF v /= "Ok" THEN [m |-> m, res |-> Err(v)]
     ELSE IF g.tag /= "Ok" THEN [m |-> m, res |-> g]
     ELSE [m |-> ExecuteCreateTransaction(m, g.id, s, parents), res |-> Ok(g.id)]

\* mutant of CreateScheduleWithId: the duplicate test runs after validation
CreateScheduleWithIdValidateFirst(m, id, s, order) ==
  LET parents == {order[i] : i \in 1..Len(order)}
      v == ValidateSchedule(m, s, order)
  IN IF v /= "Ok" THEN [m |-> m, res |-> Err(v)]
     ELSE IF id \in DOMAIN m.schedules THEN [m |-> m, res |-> Err("DuplicateId")]
     ELSE [m |-> ExecuteCreateTransaction(m, id, s, parents), res |-> Ok(id)]

\* mutant of CreateScheduleWithId: no duplicate test, a live id is overwritten
CreateScheduleWithIdOverwrite(m, id, s, order) ==
  LET parents == {order[i] : i \in 1..Len(order)}
      v == ValidateSchedule(m, s, order)
  IN IF v /= "Ok" THEN [m |-> m, res |-> Err(v)]
     ELSE [m |-> ExecuteCreateTransaction(m, id, s, parents), res |-> Ok(id)]

\* create_schedule_with_id
CreateScheduleWithId(m, id, s, order) ==
  LET parents == {order[i] : i \in 1..Len(order)}
      v == ValidateSchedule(m, s, order)
  IN IF id \in DOMAIN m.schedules THEN [m |-> m, res |-> Err("DuplicateId")]
     ELSE IF v /= "Ok" THEN [m |-> m, res |-> Err(v)]
     ELSE [m |-> ExecuteCreateTransaction(m, id, s, parents), res |-> Ok(id)]

\* mutant of AddParents: child_relations is updated before validation
AddParentsEager(m, id, order) ==
  LET parents == {order[i] : i \in 1..Len(order)}
  IN IF id \notin DOMAIN m.schedules THEN [m |-> m, res |-> Err("ScheduleNotFound")]
     ELSE LET v == ValidateSchedule(m, m.schedules[id], order)
              m1 == [m EXCEPT !.child_relations = AddChild(m.child_relations, parents, id)]
          IN IF v /= "Ok" THEN [m |-> m1, res |-> Err(v)]
             ELSE [m |-> [m1 EXCEPT
                      !.parent_relations =
                         MapPut(m.parent_relations, id,
                                (IF id \in DOMAIN m.parent_relations
                                 THEN m.parent_relations[id] ELSE {}) \cup parents)],
                   res |-> Ok(0)]

\* add_parents
AddParents(m, id, order) ==
  LET parents == {order[i] : i \in 1..Len(order)}
  IN IF id \notin DOMAIN m.schedules THEN [m |-> m, res |-> Err("ScheduleNotFound")]
     ELSE LET v == ValidateSchedule(m, m.schedules[id], order)
          IN IF v /= "Ok" THEN [m |-> m, res |-> Err(v)]
             ELSE [m |-> [m EXCEPT
                      !.child_relations = AddChild(m.child_relations, parents, id),
                      !.parent_relations =
                         MapPut(m.parent_relations, id,
                                (IF id \in DOMAIN m.parent_relations
                                 THEN m.parent_relations[id] ELSE {}) \cup parents)],
                   res |-> Ok(0)]

\* mutant of DeleteDetach: the interval stays in all_index
DeleteDetachKeepAll(m, id) ==
  LET s == m.schedules[id]
      iv == MkInterval(s.start, s.end, id)
      ex == IF s.exclusive
            THEN MapPut(m.exclusive_index, s.level,
                        LapperRemove(m.exclusive_index[s.level], iv).lapper)
            ELSE m.exclusive_index
  IN [m |-> [m EXCEPT !.exclusive_index = ex,
                      !.child_relations = MapDel(m.child_relations, id)],
      panic |-> FALSE, matched |-> TRUE]

\* mutant of DeleteDetach: the interval stays in exclusive_index
DeleteDetachKeepExclusive(m, id) ==
  LET s == m.schedules[id]
      iv == MkInterval(s.start, s.end, id)
  IN [m |-> [m EXCEPT !.all_index = MapPut(m.all_index, s.level,
                                       LapperRemove(m.all_index[s.level], iv).lapper),
                      !.child_relations = MapDel(m.child_relations, id)],
      panic |-> FALSE, matched |-> TRUE]

\* delete_schedule, the removal from all_index and child_relations.remove,
\* given the result exr of the removal from exclusive_index
DeleteDetachAll(m, id, s, iv, exr, allr) ==
  [m |-> [m EXCEPT
            !.exclusive_index = IF s.exclusive
                                THEN MapPut(m.exclusive_index, s.level, exr.lapper)
                                ELSE m.exclusive_index,
            !.all_index = MapPut(m.all_index, s.level, allr.lapper),
            !.child_relations = MapDel(m.child_relations, id)],
   panic |-> FALSE,
   matched |-> exr.removed /\ allr.removed]

\* delete_schedule, the removal from exclusive_index when the schedule is
\* exclusive; panic when all_index has no Lapper for the level
DeleteDetachExclusive(m, id, s, iv, exr) ==
  IF s.level \notin DOMAIN m.all_index
  THEN [m |-> [m EXCEPT
                 !.exclusive_index = IF s.exclusive
                                     THEN MapPut(m.exclusive_index, s.level, exr.lapper)
                                     ELSE m.exclusive_index],
        panic |-> TRUE, matched |-> exr.removed]
  ELSE DeleteDetachAll(m, id, s, iv, exr, LapperRemove(m.all_index[s.level], iv))

\* delete_schedule, the part before the loop over children: both Lapper
\* removals and child_relations.remove. The code drops the flags the
\* removals return; matched records them (TRUE when every removal that ran
\* returned true). panic is TRUE when an `expect` on a missing index fires;
\* the state is then the one reached so far.
DeleteDetach(m, id) ==
  LET s == m.schedules[id]
      iv == MkInterval(s.start, s.end, id)
  IN IF s.exclusive /\ s.level \notin DOMAIN m.exclusive_index
     THEN [m |-> m, panic |-> TRUE, matched |-> TRUE]
     ELSE DeleteDetachExclusive(m, id, s, iv,
            IF s.exclusive THEN LapperRemove(m.exclusive_index[s.level], iv)
            ELSE [lapper |-> EmptyLapper, removed |-> TRUE])

\* mutant of DeleteFinish: an emptied level slot is kept
DeleteFinishKeepSlot(m, id, s) ==
  LET li == IF s.level \in DOMAIN m.level_index
            THEN MapPut(m.level_index, s.level, m.level_index[s.level] \ {id})
            ELSE m.level_index
  IN [m EXCEPT !.parent_relations = MapDel(m.parent_relations, id),
               !.level_index = li,
               !.schedules = MapDel(m.schedules, id)]

\* mutant of DeleteFinish: the record stays in schedules
DeleteFinishKeepRecord(m, id, s) ==
  LET li == IF s.level \in DOMAIN m.level_index
            THEN IF m.level_index[s.level] \ {id} = {}
                 THEN MapDel(m.level_index, s.level)
                 ELSE MapPut(m.level_index, s.level, m.level_index[s.level] \ {id})
            ELSE m.level_index
  IN [m EXCEPT !.parent_relations = MapDel(m.parent_relations, id),
               !.level_index = li]

\* delete_schedule, the part after the loop over children
DeleteFinish(m, id, s) ==
  LET li == IF s.level \in DOMAIN m.level_index
            THEN IF m.level_index[s.level] \ {id} = {}
                 THEN MapDel(m.level_index, s.level)
                 ELSE MapPut(m.level_index, s.level, m.level_index[s.level] \ {id})
            ELSE m.level_index
  IN [m EXCEPT !.parent_relations = MapDel(m.parent_relations, id),
               !.level_index = li,
               !.schedules = MapDel(m.schedules, id)]

\* delete_schedule: the set of possible outcomes [m, res, visits, steps], one
\* for every enumeration order of the children HashSet at every depth of the
\* recursion. visits lists, in call order, the calls of delete_schedule
\* (this one and the nested ones) that found their id in schedules, each with
\* the flag of its Lapper removals. steps lists, in the order of the code,
\* the managers the call passes through: after the removal from the indices
\* and child_relations.remove, after each parents.remove of a child, the
\* steps of each nested call, and after the removals that end the call.
\* DeleteLoop(m, id, s, todo, removed, visits, steps) is the loop
\* `for child in children` with `todo` the children not yet visited.
RECURSIVE DeleteSchedule(_, _)
RECURSIVE DeleteLoop(_, _, _, _, _, _, _)
DeleteLoop(m, id, s, todo, removed, visits, steps) ==
  IF todo = {} THEN
    {[m |-> DeleteFinish(m, id, s), res |-> OkRemoved(removed \cup {id}),
      visits |-> visits, steps |-> Append(steps, DeleteFinish(m, id, s))]}
  ELSE UNION {
    LET rest == todo \ {child}
    IN IF child \in DOMAIN m.parent_relations THEN
         LET m1 == [m EXCEPT !.parent_relations[child] = @ \ {id}]
         IN IF m1.parent_relations[child] = {} THEN
              UNION {
                IF o.res.tag /= "Ok"
                THEN {[o EXCEPT !.visits = visits \o o.visits,
                                !.steps = Append(steps, m1) \o o.steps]}
                ELSE DeleteLoop(o.m, id, s, rest, removed \cup o.res.removed,
                                visits \o o.visits, Append(steps, m1) \o o.steps)
                : o \in DeleteSchedule(m1, child) }
            ELSE DeleteLoop(m1, id, s, rest, removed, visits, Append(steps, m1))
       ELSE DeleteLoop(m, id, s, rest, removed, visits, steps)
    : child \in todo }

\* delete_schedule after the removal from the indices, its result d
DeleteCascade(id, s, children, d) ==
  IF d.panic
  THEN {[m |-> d.m, res |-> Err("Panic"),
         visits |-> <<[id |-> id, matched |-> d.matched]>>, steps |-> <<d.m>>]}
  ELSE DeleteLoop(d.m, id, s, children, {},
                  <<[id |-> id, matched |-> d.matched]>>, <<d.m>>)

\* mutant of DeleteSchedule: a missing id is reported as an empty removal
DeleteScheduleMissingOk(m, id) ==
  IF id \notin DOMAIN m.schedules
  THEN {[m |-> m, res |-> OkRemoved({}), visits |-> << >>, steps |-> << >>]}
  ELSE DeleteCascade(id, m.schedules[id],
                     IF id \in DOMAIN m.child_relations
                     THEN m.child_relations[id] ELSE {},
                     DeleteDetach(m, id))

DeleteSchedule(m, id) ==
  IF id \notin DOMAIN m.schedules
  THEN {[m |-> m, res |-> Err("ScheduleNotFound"), visits |-> << >>,
         steps |-> << >>]}
  ELSE DeleteCascade(id, m.schedules[id],
                     IF id \in DOMAIN m.child_relations
                     THEN m.child_relations[id] ELSE {},
                     DeleteDetach(m, id))

\* get_schedule: the set holding the record, empty for None
GetSchedule(m, id) == IF id \in DOMAIN m.schedules THEN {m.schedules[id]} ELSE {}

\* str::contains: needle is a contiguous part of hay
Contains(hay, needle) ==
  \E i \in 0..Len(hay) :
    i + Len(needle) <= Len(hay) /\ SubSeq(hay, i + 1, i + Len(needle)) = needle

\* values of QueryOptions::name set by a caller
QueryNames == {<< "a" >>, << "b", "a" >>}

\* closures passed as QueryOptions::matcher, by name
Matchers == {"starts_at_zero"}
Matches(f, s) == f = "starts_at_zero" /\ s.start = 0

\* struct QueryOptions; every field is an Option
QueryOptions ==
  [name : {None} \cup {Some(n) : n \in QueryNames},
   start : {None} \cup {Some(x) : x \in Times \ {MaxTime}},
   stop : {None} \cup {Some(x) : x \in Times \ {0}},
   level : {None} \cup {Some(L) : L \in Levels},
   exclusive : {None} \cup {Some(b) : b \in BOOLEAN},
   matcher : {None} \cup {Some(f) : f \in Matchers}]

\* query_schedule: the ids found in the exclusive indices
ExclIds(m) ==
  UNION { {iv.val : iv \in m.exclusive_index[L].intervals} : L \in DOMAIN m.exclusive_index }

\* query_schedule: the candidate ids after the level and exclusive filters
\* (called only when the level filter did not return early)
QueryBaseIds(m, opts) ==
  LET byLevel == IF IsSome(opts.level) THEN Some(m.level_index[Unwrap(opts.level)])
                 ELSE None
      byExcl ==
        IF ~IsSome(opts.exclusive) THEN byLevel
        ELSE IF Unwrap(opts.exclusive)
          THEN IF IsSome(byLevel) THEN Some(Unwrap(byLevel) \cap ExclIds(m))
               ELSE Some(ExclIds(m))
          ELSE IF IsSome(byLevel) THEN Some(Unwrap(byLevel) \ ExclIds(m))
               ELSE Some((DOMAIN m.schedules) \ ExclIds(m))
  IN IF IsSome(byExcl) THEN Unwrap(byExcl) ELSE DOMAIN m.schedules

\* mutant of QueryKeeps: the time window is closed at both ends
QueryKeepsClosed(m, opts, id) ==
  /\ id \in DOMAIN m.schedules
  /\ LET schedule == m.schedules[id]
     IN /\ IsSome(opts.name) => Contains(schedule.name, Unwrap(opts.name))
        /\ IF IsSome(opts.start) /\ IsSome(opts.stop)
           THEN schedule.start <= Unwrap(opts.stop) /\ schedule.end >= Unwrap(opts.start)
           ELSE IF IsSome(opts.start) THEN schedule.end >= Unwrap(opts.start)
           ELSE IF IsSome(opts.stop) THEN schedule.start <= Unwrap(opts.stop)
           ELSE TRUE
        /\ IsSome(opts.matcher) => Matches(Unwrap(opts.matcher), schedule)

\* query_schedule: the body of the loop over the candidates, TRUE when the
\* candidate is pushed to the output
QueryKeeps(m, opts, id) ==
  /\ id \in DOMAIN m.schedules
  /\ LET schedule == m.schedules[id]
     IN /\ IsSome(opts.name) => Contains(schedule.name, Unwrap(opts.name))
        /\ IF IsSome(opts.start) /\ IsSome(opts.stop)
           THEN schedule.start < Unwrap(opts.stop) /\ schedule.end > Unwrap(opts.start)
           ELSE IF IsSome(opts.start) THEN ~(schedule.end <= Unwrap(opts.start))
           ELSE IF IsSome(opts.stop) THEN ~(schedule.start >= Unwrap(opts.stop))
           ELSE TRUE
        /\ IsSome(opts.matcher) => Matches(Unwrap(opts.matcher), schedule)

\* query_schedule: the Vec it can return, one for every enumeration order of
\* the candidate HashSet
QuerySchedule(m, opts) ==
  IF IsSome(opts.level) /\ Unwrap(opts.level) \notin DOMAIN m.level_index
  THEN {<< >>}
  ELSE { LET kept == SelectSeq(order, LAMBDA id : QueryKeeps(m, opts, id))
         IN [i \in 1..Len(kept) |-> << kept[i], m.schedules[kept[i]] >>]
         : order \in Orders(QueryBaseIds(m, opts)) }

\* ------------------------------------- uni-schedule-backend / schedule.rs
\* load_from_storage, first pass over the loaded records: create_schedule_with_id
\* with an empty parent set; an error is printed and the record skipped
RECURSIVE LoadPass1(_, _, _)
LoadPass1(m, items, i) ==
  IF i > Len(items) THEN m
  ELSE LoadPass1(CreateScheduleWithId(m, items[i].id, items[i].schedule, << >>).m,
                 items, i + 1)

\* load_from_storage, second pass: add_parents for every record with parents,
\* errors printed and skipped; the set of managers the pass can end in, one for
\* every enumeration order of each HashSet of parents
RECURSIVE LoadPass2(_, _, _)
LoadPass2(m, items, i) ==
  IF i > Len(items) THEN {m}
  ELSE IF items[i].parents = {} THEN LoadPass2(m, items, i + 1)
  ELSE UNION { LoadPass2(AddParents(m, items[i].id, order).m, items, i + 1)
               : order \in Orders(items[i].parents) }

\* new_from_storage: a fresh core manager, then load_from_storage
LoadFromStorage(items) == LoadPass2(LoadPass1(NewBase, items, 1), items, 1)

\* the ways Storage::upsert and Storage::remove can end: Ok; an error of
\* bincode or of the tree operation, before the tree changes; an error of
\* flush, after the tree has changed
StorageOutcomes == {"ok", "op_failed", "flush_failed"}

\* Storage::upsert on the tree held as a map from id to record
StorageUpsert(db, id, item, outcome) ==
  [db |-> IF outcome = "op_failed" THEN db ELSE MapPut(db, id, item),
   ok |-> outcome = "ok"]

\* Storage::remove
StorageRemove(db, id, outcome) ==
  [db |-> IF outcome = "op_failed" THEN db ELSE MapDel(db, id),
   ok |-> outcome = "ok"]

\* the record create_schedule persists; porder is the iteration order of the
\* HashSet of parents
PersistSchedule(id, s, porder) ==
  [id |-> id, schedule |-> s, parents |-> porder, children |-> << >>]

\* the record step of a mutant of BackendCreateSchedule: a failed upsert
\* gives back the manager of before the create
PersistOrRollback(m, c, db, s, porder, outcome) ==
  IF c.res.tag /= "Ok" THEN [m |-> c.m, db |-> db, res |-> c.res, upsert |-> "none"]
  ELSE [m |-> IF outcome = "ok" THEN c.m ELSE m,
        db |-> StorageUpsert(db, c.res.id, PersistSchedule(c.res.id, s, porder), outcome).db,
        res |-> IF outcome = "ok" THEN c.res ELSE Err("StorageError"),
        upsert |-> outcome]

\* mutant of BackendCreateSchedule: a failed upsert undoes the create
BackendCreateScheduleRollback(m, db, s, order, cands, porder, outcome) ==
  PersistOrRollback(m, CreateSchedule(m, s, order, cands), db, s, porder, outcome)

\* create_schedule of the backend after the core create has returned c: an
\* error of the core is passed on; else the record is upserted and a failed
\* upsert is returned as StorageError. `upsert` notes how the upsert ended
PersistCreated(c, db, s, porder, outcome) ==
  IF c.res.tag /= "Ok" THEN [m |-> c.m, db |-> db, res |-> c.res, upsert |-> "none"]
  ELSE [m |-> c.m,
        db |-> StorageUpsert(db, c.res.id, PersistSchedule(c.res.id, s, porder), outcome).db,
        res |-> IF StorageUpsert(db, c.res.id, PersistSchedule(c.res.id, s, porder), outcome).ok
                THEN c.res ELSE Err("StorageError"),
        upsert |-> outcome]

\* ScheduleManager::create_schedule of the backend, with storage present
BackendCreateSchedule(m, db, s, order, cands, porder, outcome) ==
  PersistCreated(CreateSchedule(m, s, order, cands), db, s, porder, outcome)

\* ScheduleManager::delete_schedule of the backend: the core delete, then
\* remove of the record of schedule_id, its result dropped; Ok(()) is returned
BackendDeleteSchedule(m, db, id, outcome) ==
  { IF c.res.tag /= "Ok" THEN [m |-> c.m, db |-> db, res |-> c.res, steps |-> c.steps]
    ELSE [m |-> c.m, db |-> StorageRemove(db, id, outcome).db, res |-> Ok(0),
          steps |-> c.steps]
    : c \in DeleteSchedule(m, id) }

\* SledStorage::persist_snapshot(&manager), called by the commands of
\* commands.rs; its code is not part of the sources. It is taken to write the
\* manager through the persistence port: one record per live schedule, with
\* its parents and children as id lists in some order, in place of what the
\* store held; it returns nothing, so a failure leaves the store as it was
\* and is not reported.
SnapshotOrders(m, rel) ==
  LET ids == DOMAIN m.schedules
      SetOf(id) == IF id \in DOMAIN rel THEN rel[id] ELSE {}
  IN {f \in [ids -> UNION ({Orders(SetOf(id)) : id \in ids} \cup {{}})] :
        \A id \in ids : f[id] \in Orders(SetOf(id))}

PersistSnapshot(m, db, outcome) ==
  IF outcome = "op_failed" THEN {db}
  ELSE {[id \in DOMAIN m.schedules |->
           [id |-> id, schedule |-> m.schedules[id],
            parents |-> po[id], children |-> co[id]]] :
          po \in SnapshotOrders(m, m.parent_relations),
          co \in SnapshotOrders(m, m.child_relations)}

\* ----------- the host commands around the RwLock (tauri_api, commands.rs)
\* the tasks that run commands at the same time
Threads == 1..MaxThreads

\* the command sets a host is built with: mod tauri_api over the static
\* MANAGER, which holds a storage in a release build and none in a debug
\* build, and commands.rs over AppState
HostApis == {"tauri_api", "tauri_api_debug", "commands"}

\* the schedules given to the host commands: both levels, whole range
HostSchedules == {s \in Schedules : s.start = 0 /\ s.end = MaxTime /\ ~s.exclusive}

\* a task outside every command
IdleThread == [pc |-> "idle", op |-> "none", pending |-> None, snap |-> None]

\* RwLock<ScheduleManager>, no guard held, and the tasks idle; committed is
\* the manager as the last completed mutation left it
HostInit ==
  [api |-> "tauri_api", writer |-> None, readers |-> {},
   th |-> [t \in Threads |-> IdleThread], committed |-> NewBase]

\* what a mutating command is about to do under its write guard: the
\* managers the call still has to pass through, in the order of the code,
\* the manager and the store as the call leaves them, the value returned,
\* and whether the call reaches the store
HostPending(steps, m, db, res, stores) ==
  [steps |-> steps, m |-> m, db |-> db, res |-> res, stores |-> stores]

\* tauri_api::create_schedule: mgr.create_schedule, of the backend manager
\* with a storage (release build) or without one (debug build, the core call)
TauriCreate(api, m, db, s, order, cands, porder, outcome) ==
  IF api = "tauri_api"
  THEN HostPending(ExecuteCreateSteps(m, CreateSchedule(m, s, order, cands).m),
                   BackendCreateSchedule(m, db, s, order, cands, porder, outcome).m,
                   BackendCreateSchedule(m, db, s, order, cands, porder, outcome).db,
                   BackendCreateSchedule(m, db, s, order, cands, porder, outcome).res,
                   CreateSchedule(m, s, order, cands).res.tag = "Ok")
  ELSE HostPending(ExecuteCreateSteps(m, CreateSchedule(m, s, order, cands).m),
                   CreateSchedule(m, s, order, cands).m, db,
                   CreateSchedule(m, s, order, cands).res, FALSE)

\* tauri_api::delete_schedule: mgr.delete_schedule, () returned on success
TauriDelete(api, m, db, id, outcome) ==
  IF api = "tauri_api"
  THEN {HostPending(r.steps, r.m, r.db, r.res, r.res.tag = "Ok") :
          r \in BackendDeleteSchedule(m, db, id, outcome)}
  ELSE {HostPending(r.steps, r.m, db, IF r.res.tag = "Ok" THEN Ok(0) ELSE r.res, FALSE) :
          r \in DeleteSchedule(m, id)}

\* commands::create_schedule and delete_schedule after the core call has
\* returned c, having passed through `steps`: on Ok the storage guard is
\* taken and the manager persisted
CommandPersist(c, steps, db, outcome) ==
  IF c.res.tag /= "Ok" THEN {HostPending(steps, c.m, db, c.res, FALSE)}
  ELSE {HostPending(steps, c.m, snap, c.res, TRUE) :
          snap \in PersistSnapshot(c.m, db, outcome)}

\* mutant of RwLockCanWrite: the write guard is granted while read guards
\* are held
RwLockCanWriteOverReaders(h) == ~IsSome(h.writer)

\* RwLock::write returns when no guard is held
RwLockCanWrite(h) == ~IsSome(h.writer) /\ h.readers = {}

\* RwLock::read returns when no write guard is held
RwLockCanRead(h) == ~IsSome(h.writer)

\* where a call under the write guard goes next: to its next write to the
\* manager, then to the store if it reaches it, then to its return
HostNextPc(r) ==
  IF Len(r.steps) > 0 THEN "w_step"
  ELSE IF r.stores THEN "w_store" ELSE "w_done"

\* a command has taken the write guard for a call that will end in r; a
\* call that fails validation or finds no schedule writes nothing and goes
\* straight to its return
HostTakeWrite(h, t, op, r) ==
  [h EXCEPT !.writer = Some(t),
            !.th[t] = [pc |-> HostNextPc(r), op |-> op, pending |-> Some(r),
                       snap |-> None]]

\* the write guard is dropped at the end of the command
HostDropWrite(h, t, m) ==
  [h EXCEPT !.writer = None, !.th[t] = IdleThread, !.committed = m]

\* ------------------------------------------------------------ the system
VARIABLES schedules, exclusive_index, all_index, parent_relations,
          child_relations, level_index, last, lapper, storage, host

vars == <<schedules, exclusive_index, all_index, parent_relations,
          child_relations, level_index, last, lapper, storage, host>>

\* the manager as one value
Mgr ==
  [schedules |-> schedules, exclusive_index |-> exclusive_index,
   all_index |-> all_index, parent_relations |-> parent_relations,
   child_relations |-> child_relations, level_index |-> level_index]

MgrNext ==
  [schedules |-> schedules', exclusive_index |-> exclusive_index',
   all_index |-> all_index', parent_relations |-> parent_relations',
   child_relations |-> child_relations', level_index |-> level_index']

SetMgr(m) ==
  /\ schedules' = m.schedules
  /\ exclusive_index' = m.exclusive_index
  /\ all_index' = m.all_index
  /\ parent_relations' = m.parent_relations
  /\ child_relations' = m.child_relations
  /\ level_index' = m.level_index

\* the call made last: its name and the value it returned
Call(op, res) == [op |-> op, res |-> res]

\* candidate streams of Uuid::now_v7(): one value repeated, or one value
\* for all attempts but the last
CandSeqs ==
  {[i \in 1..MAX_ID_ATTEMPTS |-> IF i < k THEN a ELSE b] :
     a \in Ids, b \in Ids, k \in {1, MAX_ID_ATTEMPTS}}

\* an empty manager, Lapper and store, and the host h
InitHost(h) ==
  /\ schedules = NewBase.schedules
  /\ exclusive_index = NewBase.exclusive_index
  /\ all_index = NewBase.all_index
  /\ parent_relations = NewBase.parent_relations
  /\ child_relations = NewBase.child_relations
  /\ level_index = NewBase.level_index
  /\ last = Call("new", Ok(0))
  /\ lapper = EmptyLapper
  /\ storage = EmptyMap
  /\ host = h

Init == InitHost(HostInit)

\* generate_unique_id runs, and draws candidates, only once validation passed
DoCreateSchedule ==
  \E s \in Schedules, P \in SUBSET Ids :
    \E order \in Orders(P) :
      \E cands \in IF ValidateSchedule(Mgr, s, order) = "Ok"
                   THEN CandSeqs ELSE {CHOOSE c \in CandSeqs : TRUE} :
        LET r == CreateSchedule(Mgr, s, order, cands)
        IN /\ SetMgr(r.m)
           /\ last' = Call("create_schedule", r.res)
           /\ UNCHANGED <<lapper, storage, host>>

DoCreateScheduleWithId ==
  \E id \in Ids, s \in Schedules, P \in SUBSET Ids :
    \E order \in Orders(P) :
      LET r == CreateScheduleWithId(Mgr, id, s, order)
      IN /\ SetMgr(r.m)
         /\ last' = Call("create_schedule_with_id", r.res)
         /\ UNCHANGED <<lapper, storage, host>>

DoAddParents ==
  \E id \in Ids, P \in SUBSET Ids :
    \E order \in Orders(P) :
      LET r == AddParents(Mgr, id, order)
      IN /\ SetMgr(r.m)
         /\ last' = Call("add_parents", r.res)
         /\ UNCHANGED <<lapper, storage, host>>

DoDeleteSchedule ==
  \E id \in Ids :
    \E r \in DeleteSchedule(Mgr, id) :
      /\ SetMgr(r.m)
      /\ last' = Call("delete_schedule", r.res)
      /\ UNCHANGED <<lapper, storage, host>>

Next ==
  \/ DoCreateSchedule
  \/ DoCreateScheduleWithId
  \/ DoAddParents
  \/ DoDeleteSchedule

\* query_schedule reads the manager; the returned Vec is recorded
DoQuerySchedule ==
  \E opts \in QueryOptions :
    \E out \in QuerySchedule(Mgr, opts) :
      /\ SetMgr(Mgr)
      /\ last' = [op |-> "query_schedule", res |-> Ok(0), found |-> out]
      /\ UNCHANGED <<lapper, storage, host>>

\* the manager driven by create_schedule, delete_schedule and query_schedule
NextQuery ==
  \/ DoCreateSchedule
  \/ DoDeleteSchedule
  \/ DoQuerySchedule

QuerySpec == Init /\ [][NextQuery]_vars

\* a Lapper taken alone: insert, while the tree has fewer than MaxNodes nodes
DoLapperInsert ==
  \E iv \in Intervals :
    /\ NodeCount(lapper.root) < MaxNodes
    /\ lapper' = LapperInsert(lapper, iv)
    /\ last' = Call("lapper_insert", Ok(0))
    /\ SetMgr(Mgr)
    /\ UNCHANGED <<storage, host>>

\* remove; the returned flag is recorded
DoLapperRemove ==
  \E iv \in Intervals :
    LET r == LapperRemove(lapper, iv)
    IN /\ lapper' = r.lapper
       /\ last' = [op |-> "lapper_remove", res |-> Ok(0), returned |-> r.removed]
       /\ SetMgr(Mgr)
       /\ UNCHANGED <<storage, host>>

\* insert_batch with a vector of at most MaxBatch intervals, while the set
\* stays within MaxNodes elements
DoLapperInsertBatch ==
  \E new_intervals \in Batches :
    /\ Cardinality(lapper.intervals \cup CollectSet(new_intervals)) <= MaxNodes
    /\ lapper' = InsertBatch(lapper, new_intervals)
    /\ last' = Call("lapper_insert_batch", Ok(0))
    /\ SetMgr(Mgr)
    /\ UNCHANGED <<storage, host>>

\* find, run to exhaustion; the yielded sequence is recorded
DoLapperFind ==
  \E start \in LapperTimes, stop \in LapperTimes :
    /\ last' = [op |-> "lapper_find", res |-> Ok(0), found |-> Find(lapper, start, stop)]
    /\ UNCHANGED <<lapper, storage, host>>
    /\ SetMgr(Mgr)

\* has_overlap; the returned flag is recorded
DoLapperHasOverlap ==
  \E start \in LapperTimes, stop \in LapperTimes :
    /\ last' = [op |-> "lapper_has_overlap", res |-> Ok(0),
                returned |-> HasOverlap(lapper, start, stop)]
    /\ UNCHANGED <<lapper, storage, host>>
    /\ SetMgr(Mgr)

NextLapper ==
  \/ DoLapperInsert
  \/ DoLapperRemove
  \/ DoLapperFind
  \/ DoLapperHasOverlap

LapperSpec == Init /\ [][NextLapper]_vars

\* a Lapper driven by insert, remove and insert_batch
NextLapperBatch ==
  \/ DoLapperInsert
  \/ DoLapperRemove
  \/ DoLapperInsertBatch

LapperBatchSpec == Init /\ [][NextLapperBatch]_vars

\* the schedules given to the persistent manager: every level and flag, over
\* the whole time range
BackendSchedules == {s \in Schedules : s.start = 0 /\ s.end = MaxTime}

\* the persistent manager: create_schedule; the outcome of upsert is recorded
DoBackendCreateSchedule ==
  \E s \in BackendSchedules, P \in SUBSET Ids :
    \E order \in Orders(P), porder \in Orders(P), outcome \in StorageOutcomes :
      \E cands \in IF ValidateSchedule(Mgr, s, order) = "Ok"
                   THEN CandSeqs ELSE {CHOOSE c \in CandSeqs : TRUE} :
        \E r \in {BackendCreateSchedule(Mgr, storage, s, order, cands, porder, outcome)} :
          /\ SetMgr(r.m)
          /\ storage' = r.db
          /\ last' = [op |-> "backend_create_schedule", res |-> r.res, upsert |-> r.upsert]
          /\ UNCHANGED <<lapper, host>>

\* the persistent manager: delete_schedule
DoBackendDeleteSchedule ==
  \E id \in Ids, outcome \in StorageOutcomes :
    \E r \in BackendDeleteSchedule(Mgr, storage, id, outcome) :
      /\ SetMgr(r.m)
      /\ storage' = r.db
      /\ last' = Call("backend_delete_schedule", r.res)
      /\ UNCHANGED <<lapper, host>>

NextBackend ==
  \/ DoBackendCreateSchedule
  \/ DoBackendDeleteSchedule

BackendSpec == Init /\ [][NextBackend]_vars

\* the persistent manager over a storage whose operations never fail
DoBackendCreateOk ==
  \E s \in BackendSchedules, P \in SUBSET Ids :
    \E order \in Orders(P), porder \in Orders(P) :
      \E cands \in IF ValidateSchedule(Mgr, s, order) = "Ok"
                   THEN CandSeqs ELSE {CHOOSE c \in CandSeqs : TRUE} :
        \E r \in {BackendCreateSchedule(Mgr, storage, s, order, cands, porder, "ok")} :
          /\ SetMgr(r.m)
          /\ storage' = r.db
          /\ last' = [op |-> "backend_create_schedule", res |-> r.res, upsert |-> r.upsert]
          /\ UNCHANGED <<lapper, host>>

DoBackendDeleteOk ==
  \E id \in Ids :
    \E r \in BackendDeleteSchedule(Mgr, storage, id, "ok") :
      /\ SetMgr(r.m)
      /\ storage' = r.db
      /\ last' = Call("backend_delete_schedule", r.res)
      /\ UNCHANGED <<lapper, host>>

NextBackendOk ==
  \/ DoBackendCreateOk
  \/ DoBackendDeleteOk

BackendOkSpec == Init /\ [][NextBackendOk]_vars

\* task t can take the write guard of a host built with one of `apis`
HostCanBegin(t, apis) ==
  /\ host.api \in apis
  /\ host.th[t].pc = "idle"
  /\ RwLockCanWrite(host)

\* tauri_api::create_schedule: MANAGER.write(), then mgr.create_schedule,
\* whose writes follow in HostWriteStep and HostWriteStore
HostCreateBegin ==
  \E t \in Threads :
    /\ HostCanBegin(t, {"tauri_api", "tauri_api_debug"})
    /\ \E s \in HostSchedules, P \in SUBSET Ids :
         \E order \in Orders(P), porder \in Orders(P), outcome \in StorageOutcomes :
           \E cands \in IF ValidateSchedule(Mgr, s, order) = "Ok"
                        THEN CandSeqs ELSE {CHOOSE c \in CandSeqs : TRUE} :
             host' = HostTakeWrite(host, t, "create_schedule",
                       TauriCreate(host.api, Mgr, storage, s, order, cands, porder, outcome))
    /\ SetMgr(Mgr)
    /\ UNCHANGED <<last, lapper, storage>>

\* tauri_api::delete_schedule: MANAGER.write(), then mgr.delete_schedule
HostDeleteBegin ==
  \E t \in Threads :
    /\ HostCanBegin(t, {"tauri_api", "tauri_api_debug"})
    /\ \E id \in Ids, outcome \in StorageOutcomes :
         \E r \in TauriDelete(host.api, Mgr, storage, id, outcome) :
           host' = HostTakeWrite(host, t, "delete_schedule", r)
    /\ SetMgr(Mgr)
    /\ UNCHANGED <<last, lapper, storage>>

\* commands::create_schedule: state.manager.write().await, then the core
\* create_schedule and, on Ok, persist_snapshot under the storage guard
CommandCreateBegin ==
  \E t \in Threads :
    /\ HostCanBegin(t, {"commands"})
    /\ \E s \in HostSchedules, P \in SUBSET Ids :
         \E order \in Orders(P), outcome \in StorageOutcomes :
           \E cands \in IF ValidateSchedule(Mgr, s, order) = "Ok"
                        THEN CandSeqs ELSE {CHOOSE c \in CandSeqs : TRUE} :
             \E r \in CommandPersist(CreateSchedule(Mgr, s, order, cands),
                        ExecuteCreateSteps(Mgr, CreateSchedule(Mgr, s, order, cands).m),
                        storage, outcome) :
               host' = HostTakeWrite(host, t, "create_schedule", r)
    /\ SetMgr(Mgr)
    /\ UNCHANGED <<last, lapper, storage>>

\* commands::delete_schedule: state.manager.write().await, then the core
\* delete_schedule and, on Ok, persist_snapshot; the removed ids are returned
CommandDeleteBegin ==
  \E t \in Threads :
    /\ HostCanBegin(t, {"commands"})
    /\ \E id \in Ids, outcome \in StorageOutcomes :
         \E c \in DeleteSchedule(Mgr, id) :
           \E r \in CommandPersist(c, c.steps, storage, outcome) :
             host' = HostTakeWrite(host, t, "delete_schedule", r)
    /\ SetMgr(Mgr)
    /\ UNCHANGED <<last, lapper, storage>>

\* the call under the write guard makes its next write to the manager, in
\* the order of execute_create_transaction and of delete_schedule with its
\* nested calls
HostWriteStep ==
  \E t \in Threads :
    /\ host.th[t].pc = "w_step"
    /\ SetMgr(Head(Unwrap(host.th[t].pending).steps))
    /\ host' = [host EXCEPT
                  !.th[t].pending =
                     Some([Unwrap(host.th[t].pending) EXCEPT !.steps = Tail(@)]),
                  !.th[t].pc =
                     HostNextPc([Unwrap(host.th[t].pending) EXCEPT !.steps = Tail(@)])]
    /\ UNCHANGED <<last, lapper, storage>>

\* the store is written, still under the write guard of the manager:
\* store.upsert / store.remove in the backend manager, persist_snapshot under
\* state.storage.write().await in commands.rs
HostWriteStore ==
  \E t \in Threads :
    /\ host.th[t].pc = "w_store"
    /\ storage' = Unwrap(host.th[t].pending).db
    /\ host' = [host EXCEPT !.th[t].pc = "w_done"]
    /\ SetMgr(Mgr)
    /\ UNCHANGED <<last, lapper>>

\* the command returns and its write guard is dropped
HostWriteEnd ==
  \E t \in Threads :
    /\ host.th[t].pc = "w_done"
    /\ host' = HostDropWrite(host, t, Mgr)
    /\ last' = Call(host.th[t].op, Unwrap(host.th[t].pending).res)
    /\ SetMgr(Mgr)
    /\ UNCHANGED <<lapper, storage>>

\* get_schedule and query_schedules of both command sets: MANAGER.read(),
\* state.manager.read().await
HostReadBegin ==
  \E t \in Threads, op \in {"get_schedule", "query_schedules"} :
    /\ host.th[t].pc = "idle"
    /\ RwLockCanRead(host)
    /\ host' = [host EXCEPT !.readers = @ \cup {t},
                            !.th[t] = [pc |-> "r_read", op |-> op,
                                       pending |-> None, snap |-> None]]
    /\ SetMgr(Mgr)
    /\ UNCHANGED <<last, lapper, storage>>

\* the reader reads the manager through its guard; what it sees is kept
HostRead ==
  \E t \in Threads :
    /\ host.th[t].pc = "r_read"
    /\ host' = [host EXCEPT !.th[t].pc = "r_done", !.th[t].snap = Some(Mgr)]
    /\ SetMgr(Mgr)
    /\ UNCHANGED <<last, lapper, storage>>

\* the reader returns and its read guard is dropped
HostReadEnd ==
  \E t \in Threads :
    /\ host.th[t].pc = "r_done"
    /\ host' = [host EXCEPT !.readers = @ \ {t}, !.th[t] = IdleThread]
    /\ last' = Call(host.th[t].op, Ok(0))
    /\ SetMgr(Mgr)
    /\ UNCHANGED <<lapper, storage>>

NextHost ==
  \/ HostCreateBegin
  \/ HostDeleteBegin
  \/ CommandCreateBegin
  \/ CommandDeleteBegin
  \/ HostWriteStep
  \/ HostWriteStore
  \/ HostWriteEnd
  \/ HostReadBegin
  \/ HostRead
  \/ HostReadEnd

\* a host built with any one of the command sets
HostSpecInit == \E api \in HostApis : InitHost([HostInit EXCEPT !.api = api])

HostSpec == HostSpecInit /\ [][NextHost]_vars

\* a Lapper grown to MaxTreeNodes nodes over TreeIntervals: insert
DoTreeInsert ==
  \E iv \in TreeIntervals :
    /\ NodeCount(lapper.root) < MaxTreeNodes
    /\ lapper' = LapperInsert(lapper, iv)
    /\ last' = Call("lapper_insert", Ok(0))
    /\ SetMgr(Mgr)
    /\ UNCHANGED <<storage, host>>

\* remove
DoTreeRemove ==
  \E iv \in TreeIntervals :
    \E r \in {LapperRemove(lapper, iv)} :
      /\ lapper' = r.lapper
      /\ last' = [op |-> "lapper_remove", res |-> Ok(0), returned |-> r.removed]
      /\ SetMgr(Mgr)
      /\ UNCHANGED <<storage, host>>

NextTree ==
  \/ DoTreeInsert
  \/ DoTreeRemove

TreeSpec == Init /\ [][NextTree]_vars

\* a Lapper constructed by from_vec, once; the vector is recorded
DoFromVec ==
  \E vec \in Vecs :
    /\ last.op = "new"
    /\ lapper' = FromVec(vec)
    /\ last' = [op |-> "from_vec", res |-> Ok(0), vec |-> vec]
    /\ SetMgr(Mgr)
    /\ UNCHANGED <<storage, host>>

\* a Lapper constructed by new on the set of the vector's elements, once
DoLapperNew ==
  \E vec \in Vecs :
    /\ last.op = "new"
    /\ lapper' = LapperNew(CollectSet(vec))
    /\ last' = [op |-> "lapper_new", res |-> Ok(0), vec |-> vec]
    /\ SetMgr(Mgr)
    /\ UNCHANGED <<storage, host>>

NextFromVec ==
  \/ DoFromVec
  \/ DoLapperNew

FromVecSpec == Init /\ [][NextFromVec]_vars

\* the manager driven by create_schedule and delete_schedule alone
\* the records of the cascade specification: whole range, three levels
CascadeSchedules ==
  [start : {0}, end : {MaxTime}, level : 0..MaxCascadeLevel,
   exclusive : BOOLEAN, name : Names]

DoCascadeCreateWithId ==
  \E id \in Ids, s \in CascadeSchedules, P \in SUBSET Ids :
    \E order \in Orders(P) :
      LET r == CreateScheduleWithId(Mgr, id, s, order)
      IN /\ SetMgr(r.m)
         /\ last' = Call("create_schedule_with_id", r.res)
         /\ UNCHANGED <<lapper, storage, host>>

DoCascadeCreate ==
  \E s \in CascadeSchedules, P \in SUBSET Ids :
    \E order \in Orders(P) :
      \E cands \in IF ValidateSchedule(Mgr, s, order) = "Ok"
                   THEN CandSeqs ELSE {CHOOSE c \in CandSeqs : TRUE} :
        LET r == CreateSchedule(Mgr, s, order, cands)
        IN /\ SetMgr(r.m)
           /\ last' = Call("create_schedule", r.res)
           /\ UNCHANGED <<lapper, storage, host>>

NextCascade ==
  \/ DoCascadeCreate
  \/ DoCascadeCreateWithId
  \/ DoAddParents
  \/ DoDeleteSchedule

CascadeSpec == Init /\ [][NextCascade]_vars

NextCreateDelete ==
  \/ DoCreateSchedule
  \/ DoDeleteSchedule

CreateDeleteSpec == Init /\ [][NextCreateDelete]_vars

Spec == Init /\ [][Next]_vars

\* ------------------------------------------------------------ vocabulary
Live == DOMAIN schedules

ParentsOf(id) == IF id \in DOMAIN parent_relations THEN parent_relations[id] ELSE {}
ChildrenOf(id) == IF id \in DOMAIN child_relations THEN child_relations[id] ELSE {}

\* half-open ranges [start, end) of two schedules share an instant
RangesOverlap(a, b) == a.start < b.end /\ a.end > b.start

RECURSIVE AncestorsUpTo(_, _)
AncestorsUpTo(set, n) ==
  IF n = 0 THEN set
  ELSE AncestorsUpTo(set \cup UNION {ParentsOf(x) : x \in set}, n - 1)

\* every id reachable from id through the parents map
Ancestors(id) == AncestorsUpTo(ParentsOf(id), MaxId)

\* the intervals of a tree, in order
RECURSIVE InOrder(_)
InOrder(o) ==
  IF ~IsSome(o) THEN << >>
  ELSE InOrder(Unwrap(o).left) \o << Unwrap(o).iv >> \o InOrder(Unwrap(o).right)

\* how many stored entries of a lapper carry val = id: in the set, in the tree
SetEntries(lp, id) == {iv \in lp.intervals : iv.val = id}
TreeEntries(lp, id) == {i \in 1..Len(InOrder(lp.root)) : InOrder(lp.root)[i].val = id}

\* ---------------------------------------------------------------- claims

\* C1: every live schedule S that overlaps a live exclusive schedule E at
\* E's level or below (S.level >= E.level) is a descendant of E through the
\* parents map.
C1_Exclusivity ==
  \A E \in Live, S \in Live :
    ( /\ E /= S
      /\ schedules[E].exclusive
      /\ schedules[S].level >= schedules[E].level
      /\ RangesOverlap(schedules[S], schedules[E]) )
    => E \in Ancestors(S)

\* a live schedule sits inside the range of a live exclusive schedule
C1_Witness ==
  \E E \in Live, S \in Live :
    /\ E /= S
    /\ schedules[E].exclusive
    /\ schedules[S].level >= schedules[E].level
    /\ RangesOverlap(schedules[S], schedules[E])
    /\ E \in Ancestors(S)

\* C2: every parent of a live schedule is live, has a strictly lower level
\* and a containing range; so no schedule is its own ancestor.
C2_Hierarchy ==
  \A id \in Live :
    /\ \A p \in ParentsOf(id) :
         /\ p \in Live
         /\ schedules[p].level < schedules[id].level
         /\ schedules[p].start <= schedules[id].start
         /\ schedules[p].end >= schedules[id].end
    /\ id \notin Ancestors(id)

\* a live schedule has a parent, attached by add_parents or at creation
C2_Witness ==
  /\ last.op \in {"add_parents", "create_schedule", "create_schedule_with_id"}
  /\ last.res.tag = "Ok"
  /\ \E id \in Live : ParentsOf(id) /= {}

\* C3 (as claimed): id is in children[p] exactly when p is in parents[id].
C3_AdjacencySymmetry ==
  \A p \in Ids, id \in Ids : (id \in ChildrenOf(p)) <=> (p \in ParentsOf(id))

\* C4: a live id has exactly one entry in all_index[its level], carrying its
\* start and end, none in another level, and every entry of every all_index
\* lapper, in the sorted set and in the tree, belongs to a live id.
C4_AllIndex ==
  /\ \A id \in Live :
       LET s == schedules[id]
       IN /\ s.level \in DOMAIN all_index
          /\ SetEntries(all_index[s.level], id) = {MkInterval(s.start, s.end, id)}
          /\ Cardinality(TreeEntries(all_index[s.level], id)) = 1
          /\ \A L \in DOMAIN all_index \ {s.level} :
               SetEntries(all_index[L], id) = {} /\ TreeEntries(all_index[L], id) = {}
  /\ \A L \in DOMAIN all_index :
       /\ \A iv \in all_index[L].intervals : iv.val \in Live
       /\ \A i \in 1..Len(InOrder(all_index[L].root)) :
            InOrder(all_index[L].root)[i].val \in Live

\* a schedule was deleted from a level that still indexes a live schedule
C4_Witness ==
  /\ last.op = "delete_schedule"
  /\ last.res.tag = "Ok"
  /\ \E id \in Live : all_index[schedules[id].level].intervals /= {}
  /\ \E L \in DOMAIN all_index : all_index[L].intervals = {}

\* C5: a live id has an entry in exclusive_index[its level] exactly when its
\* schedule is exclusive, and exclusive_index holds no entry of a dead id.
C5_ExclusiveIndex ==
  /\ \A id \in Live :
       LET s == schedules[id]
       IN schedules[id].exclusive <=>
            ( /\ s.level \in DOMAIN exclusive_index
              /\ SetEntries(exclusive_index[s.level], id) /= {} )
  /\ \A L \in DOMAIN exclusive_index :
       /\ \A iv \in exclusive_index[L].intervals : iv.val \in Live
       /\ \A i \in 1..Len(InOrder(exclusive_index[L].root)) :
            InOrder(exclusive_index[L].root)[i].val \in Live

\* an exclusive schedule was deleted, leaving its level's exclusive index
\* empty, while another exclusive schedule stays live
C5_Witness ==
  /\ last.op = "delete_schedule"
  /\ last.res.tag = "Ok"
  /\ \E L \in DOMAIN exclusive_index : exclusive_index[L].intervals = {}
  /\ \E a \in Live : schedules[a].exclusive

\* C6: level_index[L] is the set of live ids of level L, and no key of
\* level_index maps to the empty set.
C6_LevelIndex ==
  /\ DOMAIN level_index = {schedules[id].level : id \in Live}
  /\ \A L \in DOMAIN level_index :
       level_index[L] = {id \in Live : schedules[id].level = L}

\* the last schedule of a level was deleted while another level is in use
C6_Witness ==
  /\ last.op = "delete_schedule"
  /\ last.res.tag = "Ok"
  /\ Live /= {}
  /\ \E L \in DOMAIN all_index : L \notin DOMAIN level_index

\* p is live, of strictly lower level than s, and its range contains s's
ParentValid(s, p) ==
  /\ p \in Live
  /\ schedules[p].level < s.level
  /\ schedules[p].start <= s.start
  /\ schedules[p].end >= s.end

ParentLevelBad(s, p) == p \in Live /\ schedules[p].level >= s.level

ParentRangeBad(s, p) ==
  /\ p \in Live
  /\ schedules[p].level < s.level
  /\ (schedules[p].start > s.start \/ schedules[p].end < s.end)

\* a live exclusive schedule outside P, at s's level or above it in the
\* hierarchy, overlaps s
InboundBlocked(s, P) ==
  \E X \in Live \ P :
    /\ schedules[X].exclusive
    /\ schedules[X].level <= s.level
    /\ RangesOverlap(s, schedules[X])

\* a live schedule outside P, at s's level or below it, overlaps s
OutboundBlocked(s, P) ==
  \E Y \in Live \ P :
    /\ schedules[Y].level >= s.level
    /\ RangesOverlap(s, schedules[Y])

\* one of the candidates drawn by generate_unique_id is not a live id
Allocates(cands) == \E i \in 1..MAX_ID_ATTEMPTS : cands[i] \notin Live

ErrorTags ==
  {"StartAfterEnd", "ParentNotFound", "LevelExceedsParent", "TimeRangeExceedsParent",
   "TimeRangeOverlaps", "DuplicateId", "ScheduleNotFound"}

\* C7: a create_schedule, create_schedule_with_id or add_parents call that
\* returns an error leaves schedules, both index families, parents, children
\* and level_index as they were before the call.
C7_ErrorsKeepState ==
  [][ ( /\ last'.op \in {"create_schedule", "create_schedule_with_id", "add_parents"}
        /\ last'.res.tag \in ErrorTags )
      => MgrNext = Mgr ]_vars

\* add_parents was refused for an overlap while schedules are live
C7_Witness ==
  /\ last.op = "add_parents"
  /\ last.res.tag = "TimeRangeOverlaps"
  /\ Cardinality(Live) = 2

\* C8: create_schedule reports the first failing stage of range, parent,
\* exclusivity: start >= end gives StartAfterEnd whatever the parents; with
\* start < end a single parent that is missing / not of lower level / not
\* containing gives ParentNotFound / LevelExceedsParent /
\* TimeRangeExceedsParent, also when an exclusive schedule overlaps; and
\* TimeRangeOverlaps is returned only when range and all parents are valid.
C8_ValidationOrder ==
  \A s \in Schedules, cands \in CandSeqs :
    /\ s.start >= s.end =>
         \A P \in SUBSET Ids : \A order \in Orders(P) :
           CreateSchedule(Mgr, s, order, cands).res.tag = "StartAfterEnd"
    /\ s.start < s.end =>
         \A p \in Ids :
           LET tag == CreateSchedule(Mgr, s, << p >>, cands).res.tag
           IN /\ p \notin Live => tag = "ParentNotFound"
              /\ ParentLevelBad(s, p) => tag = "LevelExceedsParent"
              /\ ParentRangeBad(s, p) => tag = "TimeRangeExceedsParent"
    /\ \A P \in SUBSET Ids : \A order \in Orders(P) :
         CreateSchedule(Mgr, s, order, cands).res.tag = "TimeRangeOverlaps"
           => s.start < s.end /\ \A p \in P : ParentValid(s, p)

\* create_schedule returned LevelExceedsParent in a state where some
\* schedule with such a parent also overlaps a foreign exclusive schedule
C8_Witness ==
  /\ last.op = "create_schedule"
  /\ last.res.tag = "LevelExceedsParent"
  /\ \E s \in Schedules, p \in Ids, cands \in CandSeqs :
       /\ s.start < s.end
       /\ ParentLevelBad(s, p)
       /\ InboundBlocked(s, {p})
       /\ CreateSchedule(Mgr, s, << p >>, cands).res.tag = "LevelExceedsParent"

\* C9: for a non-exclusive schedule s with start < end and valid parents P,
\* create_schedule fails with TimeRangeOverlaps exactly when a live exclusive
\* schedule outside P, of level <= s.level, overlaps s; otherwise, an unused
\* id being drawn, it succeeds and records s under the new id with parents P.
C9_InboundExclusivity ==
  \A s \in Schedules, P \in SUBSET Ids :
    ( ~s.exclusive /\ s.start < s.end /\ \A p \in P : ParentValid(s, p) ) =>
      \A order \in Orders(P), cands \in CandSeqs :
        LET r == CreateSchedule(Mgr, s, order, cands)
        IN /\ (r.res.tag = "TimeRangeOverlaps") <=> InboundBlocked(s, P)
           /\ ( ~InboundBlocked(s, P) /\ Allocates(cands) ) =>
                /\ r.res.tag = "Ok"
                /\ r.res.id \notin Live
                /\ GetSchedule(r.m, r.res.id) = {s}
                /\ r.m.parent_relations[r.res.id] = P

\* create_schedule has put a non-exclusive child inside the range of its
\* exclusive parent
C9_Witness ==
  /\ last.op = "create_schedule"
  /\ last.res.tag = "Ok"
  /\ last.res.id \in Live
  /\ ~schedules[last.res.id].exclusive
  /\ \E E \in ParentsOf(last.res.id) :
       schedules[E].exclusive /\ RangesOverlap(schedules[last.res.id], schedules[E])

\* C10: for an exclusive schedule s with start < end and valid parents P,
\* create_schedule fails with TimeRangeOverlaps whenever a live schedule
\* outside P of level >= s.level overlaps s; when no live schedule outside P
\* overlaps s (abutting ones included) and an unused id is drawn, it succeeds.
C10_OutboundExclusivity ==
  \A s \in Schedules, P \in SUBSET Ids :
    ( s.exclusive /\ s.start < s.end /\ \A p \in P : ParentValid(s, p) ) =>
      \A order \in Orders(P), cands \in CandSeqs :
        LET r == CreateSchedule(Mgr, s, order, cands)
        IN /\ OutboundBlocked(s, P) => r.res.tag = "TimeRangeOverlaps"
           /\ ( /\ \A Y \in Live \ P : ~RangesOverlap(s, schedules[Y])
                /\ Allocates(cands) )
              => r.res.tag = "Ok" /\ GetSchedule(r.m, r.res.id) = {s}

\* create_schedule has admitted an exclusive schedule next to a schedule of
\* its level or below that abuts it
C10_Witness ==
  /\ last.op = "create_schedule"
  /\ last.res.tag = "Ok"
  /\ last.res.id \in Live
  /\ schedules[last.res.id].exclusive
  /\ \E Y \in Live \ {last.res.id} :
       /\ schedules[Y].level >= schedules[last.res.id].level
       /\ \/ schedules[Y].end = schedules[last.res.id].start
          \/ schedules[Y].start = schedules[last.res.id].end

\* C11 (as claimed): delete_schedule(id) on a live id removes another
\* schedule c exactly when c had a non-empty parent set all of whose members
\* are removed by the call; a schedule without parents, or with a surviving
\* parent, stays.
C11_CascadeRule ==
  \A id \in Live :
    \A o \in DeleteSchedule(Mgr, id) :
      LET R == Live \ DOMAIN o.m.schedules
      IN \A c \in Live \ {id} :
           (c \in R) <=> (ParentsOf(c) /= {} /\ ParentsOf(c) \subseteq R)

\* C12: delete_schedule(id) on a live id returns Ok(R) with R the set of ids
\* live before the call and not after it; id is in R; get_schedule returns
\* nothing for the members of R and is unchanged for every other id.
C12_DeleteReturnsRemoved ==
  \A id \in Live :
    \A o \in DeleteSchedule(Mgr, id) :
      /\ o.res.tag = "Ok"
      /\ o.res.removed = Live \ DOMAIN o.m.schedules
      /\ id \in o.res.removed
      /\ \A x \in Ids :
           IF x \in o.res.removed
           THEN GetSchedule(o.m, x) = {}
           ELSE GetSchedule(o.m, x) = GetSchedule(Mgr, x)

\* a delete_schedule call removed a schedule together with its only child
\* while nothing else was live
C12_Witness ==
  /\ last.op = "delete_schedule"
  /\ last.res.tag = "Ok"
  /\ Cardinality(last.res.removed) = 2
  /\ Live = {}

\* C13: delete_schedule(id) and add_parents(id, P) on an id that is not live
\* return ScheduleNotFound and leave the manager as it was.
C13_NotFound ==
  \A id \in Ids \ Live :
    /\ DeleteSchedule(Mgr, id) =
         {[m |-> Mgr, res |-> Err("ScheduleNotFound"), visits |-> << >>,
           steps |-> << >>]}
    /\ \A P \in SUBSET Ids : \A order \in Orders(P) :
         AddParents(Mgr, id, order) = [m |-> Mgr, res |-> Err("ScheduleNotFound")]

\* delete_schedule returned ScheduleNotFound for an id after a deletion had
\* taken place (its level keeps an emptied index) while a schedule is live
C13_Witness ==
  /\ last.op = "delete_schedule"
  /\ last.res.tag = "ScheduleNotFound"
  /\ Live /= {}
  /\ \E L \in DOMAIN all_index : all_index[L].intervals = {}

\* C14: create_schedule_with_id on a live id returns DuplicateId whatever the
\* schedule and the parents, and changes nothing; on an id that is not live
\* it does what create_schedule does when that id is the one drawn.
C14_CreateWithId ==
  \A id \in Ids, s \in Schedules, P \in SUBSET Ids :
    \A order \in Orders(P) :
      LET r == CreateScheduleWithId(Mgr, id, s, order)
      IN /\ id \in Live => r = [m |-> Mgr, res |-> Err("DuplicateId")]
         /\ id \notin Live =>
              r = CreateSchedule(Mgr, s, order, [i \in 1..MAX_ID_ATTEMPTS |-> id])

\* create_schedule_with_id returned DuplicateId in a state where the same call
\* with an empty range and a missing parent is also answered DuplicateId
C14_Witness ==
  /\ last.op = "create_schedule_with_id"
  /\ last.res.tag = "DuplicateId"
  /\ \E id \in Live, s \in Schedules, p \in Ids \ Live :
       /\ s.start >= s.end
       /\ CreateScheduleWithId(Mgr, id, s, << p >>).res.tag = "DuplicateId"

\* the claimed success condition of add_parents(id, P): every p in P is a
\* valid parent, and every live schedule other than id that exclusivity
\* forbids to overlap id is in parents[id] \cup P
AddParentsAllowed(id, P) ==
  LET s == schedules[id]
      eff == ParentsOf(id) \cup P
  IN /\ \A p \in P : ParentValid(s, p)
     /\ \A X \in Live \ (eff \cup {id}) :
          ~ ( /\ RangesOverlap(s, schedules[X])
              /\ \/ schedules[X].exclusive /\ schedules[X].level <= s.level
                 \/ s.exclusive /\ schedules[X].level >= s.level )

\* C15 (as claimed): add_parents(id, P) on a live id succeeds exactly when
\* AddParentsAllowed(id, P); on success parents[id] is the old set united with
\* P and id is in children[p] for every p in P.
C15_AddParentsEffective ==
  \A id \in Live, P \in SUBSET Ids :
    \A order \in Orders(P) :
      LET r == AddParents(Mgr, id, order)
      IN /\ (r.res.tag = "Ok") <=> AddParentsAllowed(id, P)
         /\ r.res.tag = "Ok" =>
              /\ r.m.parent_relations[id] = ParentsOf(id) \cup P
              /\ \A p \in P : id \in r.m.child_relations[p]

\* the records (id, schedule, parents) of the live schedules, in a given order
Records(order) ==
  [i \in 1..Len(order) |->
     [id |-> order[i], schedule |-> schedules[order[i]], parents |-> ParentsOf(order[i])]]

\* C16 (as claimed): loading the records of the manager, in any order, into
\* an empty manager gives the same live ids, records and parents map.
C16_ReloadRoundTrip ==
  \A order \in Orders(Live) :
    \A m2 \in LoadFromStorage(Records(order)) :
      /\ m2.schedules = schedules
      /\ \A id \in Live :
           /\ id \in DOMAIN m2.parent_relations
           /\ m2.parent_relations[id] = ParentsOf(id)

\* the live ids that pass every filter set in opts, as claimed
Matching(opts) ==
  {id \in Live :
     LET s == schedules[id]
     IN /\ IsSome(opts.level) => s.level = Unwrap(opts.level)
        /\ IsSome(opts.exclusive) => s.exclusive = Unwrap(opts.exclusive)
        /\ IsSome(opts.name) => Contains(s.name, Unwrap(opts.name))
        /\ (IsSome(opts.start) /\ IsSome(opts.stop)) =>
             (s.start < Unwrap(opts.stop) /\ s.end > Unwrap(opts.start))
        /\ (IsSome(opts.start) /\ ~IsSome(opts.stop)) => s.end > Unwrap(opts.start)
        /\ (~IsSome(opts.start) /\ IsSome(opts.stop)) => s.start < Unwrap(opts.stop)
        /\ IsSome(opts.matcher) => Matches(Unwrap(opts.matcher), s)}

\* C17: every Vec query_schedule(opts) can return has no repeated element and
\* holds exactly the pairs (id, schedule) of the live schedules passing every
\* set filter; a level without live schedule gives the empty Vec.
C17_QuerySchedule ==
  \A opts \in QueryOptions :
    \A out \in QuerySchedule(Mgr, opts) :
      /\ \A i, j \in 1..Len(out) : out[i] = out[j] => i = j
      /\ {out[i] : i \in 1..Len(out)} = {<< id, schedules[id] >> : id \in Matching(opts)}
      /\ ( IsSome(opts.level) /\ ~\E id \in Live : schedules[id].level = Unwrap(opts.level) )
           => out = << >>

\* query_schedule returned one of two live schedules
C17_Witness ==
  /\ last.op = "query_schedule"
  /\ Cardinality(Live) = 2
  /\ Len(last.found) = 1

\* the intervals of the sorted set of lp that overlap the half-open query
StoredOverlapping(lp, qs, qe) == {iv \in lp.intervals : iv.start < qe /\ iv.stop > qs}

\* C18 (as claimed): for every query, find yields exactly the stored intervals
\* with start < qe and stop > qs, each once, in ascending (start, stop, val)
\* order.
C18_FindExact ==
  \A qs \in LapperTimes, qe \in LapperTimes :
    LET f == Find(lapper, qs, qe)
    IN /\ {f[i] : i \in 1..Len(f)} = StoredOverlapping(lapper, qs, qe)
       /\ \A i, j \in 1..Len(f) : i < j => IvLess(f[i], f[j])

\* the nodes of the tree, in order, that pass the test start < qe /\ stop > qs
TreeOverlapping(lp, qs, qe) ==
  SelectSeq(InOrder(lp.root), LAMBDA iv : iv.start < qe /\ iv.stop > qs)

\* C19: a degenerate query yields nothing: find(qs, qe) is empty for every
\* query with qs >= qe, zero-width (qs = qe) or inverted (qs > qe), whatever
\* the Lapper holds, also when a stored interval strictly contains both query
\* points.
C19_DegenerateFindEmpty ==
  \A qs \in LapperTimes, qe \in LapperTimes :
    qs >= qe => Find(lapper, qs, qe) = << >>

\* C20 (as claimed): has_overlap(qs, qe) is FALSE when qs >= qe, and for
\* qs < qe it is TRUE exactly when a stored interval has start < qe and
\* stop > qs.
C20_HasOverlap ==
  \A qs \in LapperTimes, qe \in LapperTimes :
    /\ qs >= qe => ~HasOverlap(lapper, qs, qe)
    /\ qs < qe => (HasOverlap(lapper, qs, qe) <=> StoredOverlapping(lapper, qs, qe) /= {})

\* the elements of a sequence
Range(s) == {s[i] : i \in 1..Len(s)}

\* C21 (as claimed): after any sequence of insert and remove, the sorted set
\* `intervals` and the in-order traversal of the tree are the same sequence.
C21_SetTreeSameSequence == InOrder(lapper.root) = SortedVec(lapper.intervals)

\* C22 (as claimed): inserting an interval equal to a stored one leaves the
\* Lapper unchanged (the set keeps one element, the tree gains no node), and
\* a single remove after it returns TRUE and leaves the interval absent from
\* the set and from every later find and has_overlap.
C22_DuplicateInsertNoOp ==
  \A iv \in lapper.intervals :
    LET again == LapperInsert(lapper, iv)
        r == LapperRemove(again, iv)
    IN /\ again = lapper
       /\ r.removed
       /\ iv \notin r.lapper.intervals
       /\ \A qs \in LapperTimes, qe \in LapperTimes :
            /\ iv \notin Range(Find(r.lapper, qs, qe))
            /\ HasOverlap(r.lapper, qs, qe)
                 => StoredOverlapping(r.lapper, qs, qe) /= {}

\* C23 (as claimed): for every reachable Lapper L and every interval iv,
\* inserting iv and then removing iv yields the contents of L: the same set
\* and the same find result for every query.
C23_InsertRemoveIdentity ==
  \A iv \in Intervals :
    LET r == LapperRemove(LapperInsert(lapper, iv), iv)
    IN /\ r.lapper.intervals = lapper.intervals
       /\ \A qs \in LapperTimes, qe \in LapperTimes :
            Find(r.lapper, qs, qe) = Find(lapper, qs, qe)

\* C24 (as claimed): remove(iv) returns TRUE exactly when an equal interval is
\* stored; when TRUE exactly that element disappears from the set and from
\* the tree and every other stored interval stays findable; when FALSE the
\* Lapper is unchanged.
C24_RemoveExact ==
  \A iv \in Intervals :
    LET r == LapperRemove(lapper, iv)
    IN /\ r.removed <=> iv \in lapper.intervals
       /\ r.removed =>
            /\ r.lapper.intervals = lapper.intervals \ {iv}
            /\ iv \notin Range(InOrder(r.lapper.root))
            /\ Len(InOrder(r.lapper.root)) = Len(InOrder(lapper.root)) - 1
            /\ \A other \in lapper.intervals \ {iv} :
                 other \in Range(Find(r.lapper, other.start, other.stop))
       /\ ~r.removed => r.lapper = lapper

\* C25 (as claimed): for every Lapper reachable by insert, remove and
\* insert_batch, serializing and deserializing gives a Lapper whose find
\* yields the same sequence for every query.
C25_SerdeRoundTrip ==
  LET back == LapperDeserialize(LapperSerialize(lapper))
  IN \A qs \in LapperTimes, qe \in LapperTimes :
       Find(back, qs, qe) = Find(lapper, qs, qe)

\* C26: a schedule record is immutable while it is live: over every call, an
\* id that is live before and after keeps its record and get_schedule returns
\* the same fields; a successful create adds exactly one id, which was not
\* live; a failed create and add_parents leave the set of live ids as it was;
\* only delete_schedule removes ids.
C26_RecordImmutable ==
  [][ /\ \A id \in Live \cap Live' :
           /\ schedules'[id] = schedules[id]
           /\ GetSchedule(MgrNext, id) = GetSchedule(Mgr, id)
      /\ ( /\ last'.op \in {"create_schedule", "create_schedule_with_id"}
           /\ last'.res.tag = "Ok" )
           => /\ last'.res.id \notin Live
              /\ Live' = Live \cup {last'.res.id}
      /\ ( \/ last'.op = "add_parents"
           \/ /\ last'.op \in {"create_schedule", "create_schedule_with_id"}
              /\ last'.res.tag /= "Ok" )
           => Live' = Live
      /\ last'.op /= "delete_schedule" => Live \subseteq Live'
    ]_vars

\* a create has succeeded next to a schedule that was already live
C26_Witness ==
  /\ last.op \in {"create_schedule", "create_schedule_with_id"}
  /\ last.res.tag = "Ok"
  /\ \E id \in Live : id /= last.res.id

\* streams of Uuid::now_v7() one longer than the attempts made: one value
\* repeated, or one value for every draw but the 16th or but the 17th
LongCandSeqs ==
  {[i \in 1..(MAX_ID_ATTEMPTS + 1) |-> IF i < k THEN a ELSE b] :
     a \in Ids, b \in Ids, k \in {1, MAX_ID_ATTEMPTS, MAX_ID_ATTEMPTS + 1}}

\* C27: for a schedule that passes validation, create_schedule returns the
\* first of its first 16 candidates that is not live, so never a live id; if
\* any of the 16 is free the call succeeds, and if all 16 collide it returns
\* DuplicateId and leaves the manager as it was, whatever a 17th draw
\* would be.
C27_IdAllocation ==
  \A s \in Schedules, P \in SUBSET Ids :
    \A order \in Orders(P) :
      ValidateSchedule(Mgr, s, order) = "Ok" =>
        \A cands \in LongCandSeqs :
          LET r == CreateSchedule(Mgr, s, order, cands)
              free == {i \in 1..MAX_ID_ATTEMPTS : cands[i] \notin Live}
          IN /\ r.res.tag = "Ok" =>
                  /\ r.res.id \notin Live
                  /\ \E i \in free : /\ cands[i] = r.res.id
                                     /\ \A j \in 1..(i - 1) : j \notin free
             /\ free /= {} => r.res.tag = "Ok"
             /\ free = {} => (r.res = Err("DuplicateId") /\ r.m = Mgr)

\* create_schedule has given up after 16 colliding candidates
C27_Witness ==
  /\ last.op = "create_schedule"
  /\ last.res.tag = "DuplicateId"
  /\ Live = Ids

\* QueryOptions::default(): no filter set
NoFilter ==
  [name |-> None, start |-> None, stop |-> None, level |-> None,
   exclusive |-> None, matcher |-> None]

\* C28: a create_schedule of the persistent manager returns StorageError
\* exactly when the core create succeeded and the upsert failed, and then the
\* new schedule stays live in memory: one id is added, get_schedule returns
\* its record, the level index and the interval indices hold it and
\* query_schedule returns it; nothing is rolled back.
C28_NoRollback ==
  [][ last'.op = "backend_create_schedule" =>
        /\ (last'.res.tag = "StorageError")
             <=> (last'.upsert \in {"op_failed", "flush_failed"})
        /\ last'.res.tag = "StorageError" =>
             \E id \in Live' \ Live :
               LET s == schedules'[id]
                   iv == MkInterval(s.start, s.end, id)
               IN /\ Live' = Live \cup {id}
                  /\ GetSchedule(MgrNext, id) = {s}
                  /\ id \in level_index'[s.level]
                  /\ iv \in all_index'[s.level].intervals
                  /\ s.exclusive => iv \in exclusive_index'[s.level].intervals
                  /\ \A out \in QuerySchedule(MgrNext, NoFilter) :
                       \E k \in 1..Len(out) : out[k] = << id, s >>
    ]_vars

\* a create has returned StorageError and its schedule is live in memory
\* without a record in storage
C28_Witness ==
  /\ last.op = "backend_create_schedule"
  /\ last.res.tag = "StorageError"
  /\ \E id \in Live : id \notin DOMAIN storage

\* the tasks that hold the write guard, in the middle of a mutation or at
\* its end, and the tasks that hold a read guard
Writing ==
  {t \in Threads : host.th[t].pc \in {"w_step", "w_store", "w_done"}}
Reading == {t \in Threads : host.th[t].pc \in {"r_read", "r_done"}}

\* C29: under the RwLock of the host commands, for every interleaving of
\* create, delete, query and get: two writers never overlap, no mutation is
\* in progress while a reader holds its guard, and what a reader sees is the
\* manager as the last completed mutation left it.
C29_ReadersSeeWholeMutations ==
  /\ Cardinality(Writing) <= 1
  /\ Reading /= {} => (Writing = {} /\ Mgr = host.committed)
  /\ \A t \in Reading :
       host.th[t].pc = "r_done" => Unwrap(host.th[t].snap) = host.committed

\* a reader has read a manager that mutations have filled, while a second
\* task holds a read guard too
C29_Witness ==
  \E t \in Reading, u \in Reading :
    /\ t /= u
    /\ host.th[t].pc = "r_done"
    /\ Unwrap(host.th[t].snap).schedules /= EmptyMap
    /\ last.op = "delete_schedule"

\* every node of the tree has children whose heights differ by at most one
\* and a height field of one more than the larger of them
RECURSIVE AvlBalanced(_)
AvlBalanced(o) ==
  IF ~IsSome(o) THEN TRUE
  ELSE LET n == Unwrap(o)
       IN /\ BalanceFactor(n) \in {-1, 0, 1}
          /\ n.height = 1 + MaxOf(Height(n.left), Height(n.right))
          /\ AvlBalanced(n.left)
          /\ AvlBalanced(n.right)

\* C30 (as claimed): after any sequence of insert and remove, the two-children
\* removal included, the tree is AVL balanced at every node.
C30_AvlBalanced == AvlBalanced(lapper.root)

\* the largest stop among the intervals of a non-empty subtree
SubtreeMaxStop(n) ==
  LET stops == {iv.stop : iv \in Range(InOrder(Some(n)))}
  IN CHOOSE m \in stops : \A x \in stops : x <= m

\* every node's max is the largest stop of its subtree
RECURSIVE MaxAugmented(_)
MaxAugmented(o) ==
  IF ~IsSome(o) THEN TRUE
  ELSE LET n == Unwrap(o)
       IN /\ n.max = SubtreeMaxStop(n)
          /\ MaxAugmented(n.left)
          /\ MaxAugmented(n.right)

\* C31: after any sequence of insert, remove and insert_batch every node's
\* max is the largest stop in its subtree, so that no interval of the tree
\* that passes the overlap test is left out of find.
C31_MaxAugmentation ==
  /\ MaxAugmented(lapper.root)
  /\ \A qs \in LapperTimes, qe \in LapperTimes :
       Find(lapper, qs, qe) = TreeOverlapping(lapper, qs, qe)

\* a remove has left a root whose max comes from its left subtree
C31_Witness ==
  /\ last.op = "lapper_remove"
  /\ last.returned
  /\ IsSome(lapper.root)
  /\ IsSome(Unwrap(lapper.root).left)
  /\ Unwrap(lapper.root).max = Unwrap(Unwrap(lapper.root).left).max
  /\ Unwrap(lapper.root).max > Unwrap(lapper.root).iv.stop
  /\ \A iv \in Range(InOrder(Unwrap(lapper.root).right)) :
       iv.stop < Unwrap(lapper.root).max

\* the Lapper made by inserting the elements of vec one by one, in order
RECURSIVE Incremental(_, _)
Incremental(lp, vec) ==
  IF Len(vec) = 0 THEN lp
  ELSE Incremental(LapperInsert(lp, Head(vec)), Tail(vec))

\* the in-order traversal is strictly ascending
BstOrdered(o) ==
  \A i, j \in 1..Len(InOrder(o)) : i < j => IvLess(InOrder(o)[i], InOrder(o)[j])

\* C32: for every vector of distinct intervals, in any order, from_vec and
\* new on the set of its elements give the set and, for every query, the find
\* result of inserting the elements one by one into an empty Lapper, and their
\* tree is ordered, AVL balanced and max augmented.
C32_BatchEqualsIncremental ==
  last.op \in {"from_vec", "lapper_new"} =>
    LET inc == Incremental(EmptyLapper, last.vec)
    IN /\ lapper.intervals = inc.intervals
       /\ lapper.intervals = CollectSet(last.vec)
       /\ \A qs \in LapperTimes, qe \in LapperTimes :
            Find(lapper, qs, qe) = Find(inc, qs, qe)
       /\ BstOrdered(lapper.root)
       /\ AvlBalanced(lapper.root)
       /\ MaxAugmented(lapper.root)

\* from_vec has built a tree of three levels from a vector of MaxVec
\* intervals that was not sorted
C32_Witness ==
  /\ last.op = "from_vec"
  /\ Len(last.vec) = MaxVec
  /\ IvLess(last.vec[2], last.vec[1])
  /\ Height(lapper.root) = 3

\* the tree and the set of a Lapper hold the same elements, the tree once each
TreeIsSet(lp) == Range(InOrder(lp.root)) = lp.intervals /\ BstOrdered(lp.root)

\* C33: on every reachable Lapper, whatever the shape of its tree,
\* insert_batch(ivs) with ivs not empty leaves the old set united with ivs and
\* a tree whose in-order traversal is that set, AVL balanced and max
\* augmented; insert_batch of an empty list changes nothing.
C33_InsertBatch ==
  \A ivs \in Batches :
    LET r == InsertBatch(lapper, ivs)
    IN /\ Len(ivs) = 0 => r = lapper
       /\ Len(ivs) > 0 =>
            /\ r.intervals = lapper.intervals \cup CollectSet(ivs)
            /\ TreeIsSet(r)
            /\ AvlBalanced(r.root)
            /\ MaxAugmented(r.root)

\* a Lapper whose tree holds an interval twice, which a batch can be given to
C33_Witness ==
  /\ ~TreeIsSet(lapper)
  /\ Cardinality(lapper.intervals) >= 2
  /\ \E ivs \in Batches :
       /\ Len(ivs) = MaxBatch
       /\ CollectSet(ivs) \cap lapper.intervals /= {}
       /\ ~(CollectSet(ivs) \subseteq lapper.intervals)
       /\ TreeIsSet(InsertBatch(lapper, ivs))

\* C34: in every reachable state delete_schedule on a live id succeeds: it
\* returns Ok, no `expect` on a missing index fires, no nested call returns
\* an error, and in this call and in every nested one both Lapper removals
\* find the interval they are given.
C34_DeleteSucceeds ==
  \A id \in Live :
    \A o \in DeleteSchedule(Mgr, id) :
      /\ o.res.tag = "Ok"
      /\ \A i \in 1..Len(o.visits) : o.visits[i].matched

\* C35: the key set of parent_relations is the set of live ids, and every id
\* stored in a set of child_relations or of parent_relations is live.
C35_RelationsLive ==
  /\ DOMAIN parent_relations = Live
  /\ \A k \in DOMAIN parent_relations : parent_relations[k] \subseteq Live
  /\ \A k \in DOMAIN child_relations : child_relations[k] \subseteq Live

\* the schedules G the claim C36 speaks of, for a live exclusive E: a proper
\* range that overlaps E's, at a level >= E's
OverlappingAtOrBelow(E) ==
  {G \in [start : Times, end : Times, level : 0..MaxCascadeLevel,
          exclusive : BOOLEAN, name : Names] :
     /\ G.start < G.end
     /\ G.level >= schedules[E].level
     /\ G.start < schedules[E].end
     /\ schedules[E].start < G.end}

\* C36 (amended): the exemption from the exclusivity check is by direct
\* parent only. With E live and exclusive and C a live child of E,
\* create_schedule of a schedule G of level >= E's whose range overlaps E's,
\* with parents {C}, fails and changes nothing: with TimeRangeOverlaps when G
\* passes the checks against its parent C (level greater than C's, range inside
\* C's), and with the error of those checks, LevelExceedsParent or
\* TimeRangeExceedsParent, when it does not. No set of parents without E lets
\* such a G pass validation.
C36_DirectParentOnly ==
  \A E \in Live : \A C \in Live :
    (schedules[E].exclusive /\ E \in ParentsOf(C)) =>
      \A G \in OverlappingAtOrBelow(E) :
        /\ \A cands \in CandSeqs :
             LET r == CreateSchedule(Mgr, G, <<C>>, cands)
             IN /\ r.res.tag = IF ValidateParents(Mgr, G, <<C>>, 1) = "Ok"
                               THEN "TimeRangeOverlaps"
                               ELSE ValidateParents(Mgr, G, <<C>>, 1)
                /\ r.res.tag \in {"LevelExceedsParent", "TimeRangeExceedsParent",
                                  "TimeRangeOverlaps"}
                /\ r.m = Mgr
        /\ \A P \in SUBSET Ids : \A order \in Orders(P) :
             ValidateSchedule(Mgr, G, order) = "Ok" => E \in P

\* C36 (as claimed): with E live and exclusive and C a live child of E,
\* create_schedule of every schedule G of level >= E's whose range overlaps
\* E's, with parents {C}, fails with TimeRangeOverlaps, and G passes
\* validation only with E among the supplied parents.
C36_AlwaysTimeRangeOverlaps ==
  \A E \in Live : \A C \in Live :
    (schedules[E].exclusive /\ E \in ParentsOf(C)) =>
      \A G \in OverlappingAtOrBelow(E) :
        /\ \A cands \in CandSeqs :
             CreateSchedule(Mgr, G, <<C>>, cands).res.tag = "TimeRangeOverlaps"
        /\ \A P \in SUBSET Ids : \A order \in Orders(P) :
             ValidateSchedule(Mgr, G, order) = "Ok" => E \in P

\* create_schedule has just returned TimeRangeOverlaps in a state where a
\* schedule below C, the child of the exclusive E, is refused for E alone
C36_Witness ==
  /\ last = Call("create_schedule", Err("TimeRangeOverlaps"))
  /\ \E E \in Live, C \in Live :
       /\ schedules[E].exclusive /\ E \in ParentsOf(C)
       /\ \E G \in CascadeSchedules :
            /\ ~G.exclusive
            /\ G.level > schedules[C].level
            /\ ValidateParents(Mgr, G, <<C>>, 1) = "Ok"
            /\ ValidateSchedule(Mgr, G, <<C>>) = "TimeRangeOverlaps"
            /\ ValidateSchedule(Mgr, G, <<C, E>>) = "Ok"

\* C37: with a storage that never fails, after any sequence of create and
\* delete calls on the persistent manager the ids that have a record in
\* storage are the live ids: a created schedule is stored, and every id a
\* delete removes from memory, by cascade too, is removed from storage.
C37_StorageFollowsMemory == DOMAIN storage = Live

\* the ids of the calls listed in a visits sequence
VisitedIds(visits) == {visits[i].id : i \in 1..Len(visits)}

\* how many calls of a visits sequence are on id x
VisitCount(visits, x) == Cardinality({i \in 1..Len(visits) : visits[i].id = x})

\* C38: delete_schedule terminates in every reachable state, also when the
\* children map holds entries for ids that were deleted and created again at
\* another level: the cascade makes at most two calls on any id (the second
\* one while the first is in progress), fewer than twice as many calls as
\* ids it visits, and the ids it visits are the ids it returns as removed.
C38_CascadeBounded ==
  \A id \in Live :
    \A o \in DeleteSchedule(Mgr, id) :
      /\ \A x \in VisitedIds(o.visits) : VisitCount(o.visits, x) <= 2
      /\ Len(o.visits) <= 2 * Cardinality(VisitedIds(o.visits)) - 1
      /\ o.res.tag = "Ok" => VisitedIds(o.visits) = o.res.removed

\* a stale children entry of an id created again above its former parent: a
\* delete that re-enters the schedule whose delete is in progress
C38_Witness ==
  \E id \in Live, c \in Live :
    /\ c \in ChildrenOf(id) /\ id \notin ParentsOf(c)
    /\ id \in ChildrenOf(c) /\ schedules[c].level < schedules[id].level
    /\ \E o \in DeleteSchedule(Mgr, id) :
         /\ VisitCount(o.visits, id) = 2
         /\ Len(o.visits) = 3
         /\ o.res = OkRemoved({id, c})

====
